---- MODULE Spec2Model ----
(***************************************************************************)
(* A model of the w3g-parser replay decoder: the time-frame iterator over  *)
(* the decompressed record stream (records/timeframe.rs) and the action    *)
(* iterator over a frame's payload (actions/parser.rs and the per-action   *)
(* parsers).  Byte buffers are sequences of integers 0..255; an index i of *)
(* the source (0-based) is position i+1 of the sequence.                   *)
(***************************************************************************)
EXTENDS Integers, Sequences, FiniteSets, TLC

VARIABLES
    \* TimeFrameIterator (records/timeframe.rs)
    data,               \* the decompressed buffer
    offset,             \* current position in data
    accumulated_time,   \* accumulated game time (u32)
    frame_count,        \* frames yielded so far
    finished,           \* whether iteration has completed
    item,               \* what the last call of next() returned
    frames,             \* every frame yielded so far, in order
    \* ActionIterator (actions/parser.rs)
    a_live,             \* whether an action iterator has been constructed
    a_data,             \* the payload it iterates
    a_offset,           \* current offset within a_data
    a_ts,               \* context.timestamp_ms
    a_finished,         \* whether iteration has finished
    a_item,             \* what the last call of next() returned
    a_hist,             \* every item (action or error) yielded so far
    \* the free functions (format.rs, binary.rs, records/game_header.rs)
    call,               \* the function called and its arguments
    ret                 \* what it returned

vars == <<data, offset, accumulated_time, frame_count, finished, item, frames,
          a_live, a_data, a_offset, a_ts, a_finished, a_item, a_hist,
          call, ret>>

tfVars == <<data, offset, accumulated_time, frame_count, finished, item, frames>>
actVars == <<a_live, a_data, a_offset, a_ts, a_finished, a_item, a_hist>>
fnVars == <<call, ret>>

\* no free function called
NoCall == [fn |-> "none"]
NoRet == [done |-> FALSE]
IdleCalls == call = NoCall /\ ret = NoRet

----------------------------------------------------------------------------
(* Slices and little-endian reads                                          *)

Min(a, b) == IF a < b THEN a ELSE b

\* data[i]
At(d, i) == d[i + 1]

\* data.get(i): the byte, or -1 for None
Get(d, i) == IF i >= 0 /\ i < Len(d) THEN d[i + 1] ELSE -1

\* &data[a..b]
Slice(d, a, b) == SubSeq(d, a + 1, b)

\* &data[a..]
From(d, a) == SubSeq(d, a + 1, Len(d))

\* u16::from_le_bytes([d[i], d[i+1]])
U16Le(d, i) == At(d, i) + 256 * At(d, i + 1)

\* A u32 is kept as its two 16-bit halves <<low, high>>, its value being
\* low + 65536 * high: the model checker's integers are 32-bit signed.
U32(high, low) == <<low, high>>

\* u32::from_le_bytes([d[i], d[i+1], d[i+2], d[i+3]])
U32Le(d, i) == U32(U16Le(d, i + 2), U16Le(d, i))

\* bytes.iter().all(|&b| b == 0xFF)
AllFF(s) == \A k \in 1..Len(s) : s[k] = 255

----------------------------------------------------------------------------
(* Results of the per-action parsers: Ok((ActionType, consumed)) or Err    *)

NoResult ==
    [ok |-> TRUE, err |-> "none", expected |-> 0, available |-> 0,
     kind |-> "none", rule |-> "none", consumed |-> 0,
     has_ability |-> FALSE, ability_code |-> <<>>, target_unit |-> <<>>,
     has_selection |-> FALSE, unit_count |-> 0, unit_ids |-> <<>>,
     type_id |-> -1, subcommand |-> -1, raw |-> <<>>, val |-> <<>>]

\* ParserError::unexpected_eof(expected, available)
UnexpectedEof(expected, available) ==
    [NoResult EXCEPT !.ok = FALSE, !.err = "UnexpectedEof",
                     !.expected = expected, !.available = available]

\* ParserError::InvalidHeader { reason }
InvalidHeader ==
    [NoResult EXCEPT !.ok = FALSE, !.err = "InvalidHeader"]

\* Ok((kind, consumed)) reached through dispatch rule `rule`
OkResult(kind, rule, consumed, val) ==
    [NoResult EXCEPT !.kind = kind, !.rule = rule, !.consumed = consumed,
                     !.val = val]

----------------------------------------------------------------------------
(* actions/selection.rs                                                    *)

\* an expected size that counts 4 bytes per unit
SelectionExpectedSize_ids_only(unit_count) == 4 + unit_count * 4

\* expected_size = 4 + (unit_count as usize) * 8
SelectionExpectedSize(unit_count) == 4 + unit_count * 8

\* extract_unit_ids(data, count): one id per 8-byte block that still has its
\* first 4 bytes inside data
extract_unit_ids(d, count) ==
    LET n == Cardinality({i \in 0..(count - 1) : i * 8 + 4 <= Len(d)})
    IN  [k \in 1..n |-> U32Le(d, (k - 1) * 8)]

\* SelectionAction::parse(data)
SelectionAction_parse(d) ==
    IF Len(d) = 0 THEN UnexpectedEof(1, 0)
    ELSE IF At(d, 0) # 22 THEN InvalidHeader
    ELSE IF Len(d) < 4 THEN UnexpectedEof(4, Len(d))
    ELSE LET unit_count == At(d, 1)
             expected_size == SelectionExpectedSize(unit_count)
         IN  IF Len(d) < expected_size
             THEN UnexpectedEof(expected_size, Len(d))
             ELSE [OkResult("Selection", "selection", expected_size,
                            <<At(d, 2), At(d, 3)>>)
                   EXCEPT !.has_selection = TRUE,
                          !.unit_count = unit_count,
                          !.unit_ids = extract_unit_ids(From(d, 4), unit_count)]

----------------------------------------------------------------------------
(* actions/hotkey.rs                                                       *)

\* HotkeyAction::parse(data): val = <<group, operation byte>>
HotkeyAction_parse(d) ==
    IF Len(d) < 3 THEN UnexpectedEof(3, Len(d))
    ELSE IF At(d, 0) # 23 THEN InvalidHeader
    ELSE OkResult("Hotkey", "hotkey", 3, <<At(d, 1), At(d, 2)>>)

----------------------------------------------------------------------------
(* actions/ability.rs                                                      *)

\* the target slot of a directly decoded ability: None (<<>>) when all eight
\* bytes are 0xFF, else Some(first four bytes, little-endian)
AbilityTarget(target_bytes) ==
    IF AllFF(target_bytes) THEN <<>> ELSE <<U32Le(target_bytes, 0)>>

\* AbilityAction::from_raw(ability_code, target_unit)
AbilityAction_from_raw(ability_code, target_unit, rule, consumed) ==
    [OkResult("Ability", rule, consumed, <<>>)
     EXCEPT !.has_ability = TRUE, !.ability_code = ability_code,
            !.target_unit = target_unit]

\* a parse that takes its 14 bytes to be there
AbilityAction_parse_assuming_14(d) ==
    IF At(d, 0) # 26 \/ At(d, 1) # 25 THEN InvalidHeader
    ELSE OkResult("Ability", "direct", 14, <<>>)

\* AbilityAction::parse(data)
AbilityAction_parse(d) ==
    IF Len(d) < 14 THEN UnexpectedEof(14, Len(d))
    ELSE IF At(d, 0) # 26 \/ At(d, 1) # 25 THEN InvalidHeader
    ELSE [OkResult("Ability", "direct", 14, <<>>)
          EXCEPT !.has_ability = TRUE,
                 !.ability_code = Slice(d, 2, 6),
                 !.target_unit = AbilityTarget(Slice(d, 6, 14))]

\* AbilityWithSelectionAction::parse(data)
AbilityWithSelectionAction_parse(d) ==
    IF Len(d) < 3 THEN UnexpectedEof(3, Len(d))
    ELSE IF At(d, 0) # 26 \/ At(d, 1) # 0 THEN InvalidHeader
    ELSE IF Len(d) < 3 \/ At(d, 2) # 22 THEN InvalidHeader
    ELSE LET sel == SelectionAction_parse(From(d, 2))
         IN  IF ~sel.ok THEN sel
             ELSE LET ability_offset == 2 + sel.consumed
                  IN  IF Len(d) < ability_offset + 14
                      THEN UnexpectedEof(ability_offset + 14, Len(d))
                      ELSE LET ab == AbilityAction_parse(From(d, ability_offset))
                           IN  IF ~ab.ok THEN ab
                               ELSE [ab EXCEPT
                                       !.kind = "AbilityWithSelection",
                                       !.rule = "with_selection",
                                       !.consumed = ability_offset + ab.consumed,
                                       !.has_selection = TRUE,
                                       !.unit_count = sel.unit_count,
                                       !.unit_ids = sel.unit_ids,
                                       !.val = sel.val]

\* InstantAbilityAction::parse(data): val = <<flags, unknown>>
InstantAbilityAction_parse(d) ==
    IF Len(d) < 18 THEN UnexpectedEof(18, Len(d))
    ELSE IF At(d, 0) # 15 \/ At(d, 1) # 0 THEN InvalidHeader
    ELSE [OkResult("InstantAbility", "instant", 18,
                   <<U16Le(d, 2), U16Le(d, 4)>>)
          EXCEPT !.ability_code = Slice(d, 6, 10),
                 !.target_unit = AbilityTarget(Slice(d, 10, 18))]

----------------------------------------------------------------------------
(* actions/movement.rs                                                     *)

\* a movement parser whose count leaves room for the player-id byte
MovementAction_parse_consuming_27(d, expected_subcommand) ==
    IF Len(d) < 28 THEN UnexpectedEof(28, Len(d))
    ELSE IF At(d, 0) # 0 \/ At(d, 1) # expected_subcommand THEN InvalidHeader
    ELSE [OkResult("Movement", "movement", 27,
                   <<At(d, 1), U16Le(d, 2), U32Le(d, 12), U32Le(d, 16)>>)
          EXCEPT !.target_unit = AbilityTarget(Slice(d, 4, 12)),
                 !.raw = Slice(d, 20, 28)]

\* MovementAction::parse_with_subcommand(data, expected_subcommand):
\* val = <<subcommand, flags, x bits, y bits>>, raw = extra_data
MovementAction_parse_with_subcommand(d, expected_subcommand) ==
    IF Len(d) < 28 THEN UnexpectedEof(28, Len(d))
    ELSE IF At(d, 0) # 0 \/ At(d, 1) # expected_subcommand THEN InvalidHeader
    ELSE [OkResult("Movement", "movement", 28,
                   <<At(d, 1), U16Le(d, 2), U32Le(d, 12), U32Le(d, 16)>>)
          EXCEPT !.target_unit = AbilityTarget(Slice(d, 4, 12)),
                 !.raw = Slice(d, 20, 28)]

----------------------------------------------------------------------------
(* actions/parser.rs: boundary detection and the Unknown fallback          *)

MinOf(S) == CHOOSE x \in S : \A y \in S : x <= y

\* a recognized set that also holds 0x10..0x14
is_known_action_type_with_abilities(byte) ==
    byte \in {0, 3, 12, 15, 16, 17, 18, 19, 20, 21, 22, 23, 24, 25, 26, 27,
              28, 29, 30,
              38, 46, 54, 62, 70, 78, 86, 94,
              32, 36, 40, 44, 48, 52, 56, 60, 64, 68, 72, 76,
              80, 81, 82, 84, 88, 92, 96, 100, 104, 108, 112, 116, 118,
              120, 124}

\* is_known_action_type(byte)
is_known_action_type(byte) ==
    byte \in {0, 3, 12, 15, 17, 21, 22, 23, 24, 25, 26, 27, 28, 29, 30,
              38, 46, 54, 62, 70, 78, 86, 94,
              32, 36, 40, 44, 48, 52, 56, 60, 64, 68, 72, 76,
              80, 81, 82, 84, 88, 92, 96, 100, 104, 108, 112, 116, 118,
              120, 124}

\* an end_offset that takes everything up to the end of the data
unknown_end_offset_to_end(d) == IF Len(d) > 1 THEN Len(d) ELSE 1

\* the end_offset at which the scan of parse_unknown_action stops
unknown_end_offset(d) ==
    LET stops == {e \in 1..(Len(d) - 1) :
                     /\ At(d, e) \in 1..15
                     /\ e + 1 < Len(d)
                     /\ is_known_action_type(At(d, e + 1))}
    IN  IF stops # {} THEN MinOf(stops)
        ELSE IF Len(d) > 1 THEN Len(d) ELSE 1

\* a fallback that refuses what no rule matches
parse_unknown_refused(type_id, subcommand, d) == InvalidHeader

\* ActionIterator::parse_unknown_action(type_id, subcommand, data)
parse_unknown_action(type_id, subcommand, d) ==
    LET end_offset == unknown_end_offset(d)
    IN  [OkResult("Unknown", "unknown", end_offset, <<>>)
         EXCEPT !.type_id = type_id, !.subcommand = subcommand,
                !.raw = Slice(d, 1, end_offset)]

----------------------------------------------------------------------------
(* actions/parser.rs: the arms of parse_action_type                        *)

\* a | b on two bytes
RECURSIVE OrBits(_, _, _)
OrBits(a, b, n) ==
    IF n = 0 THEN 0
    ELSE (IF a % 2 = 1 \/ b % 2 = 1 THEN 1 ELSE 0)
         + 2 * OrBits(a \div 2, b \div 2, n - 1)

BasicCommand(command_id, consumed, rule) ==
    OkResult("BasicCommand", rule, consumed, <<command_id>>)

\* a Selection parsed from the 0x16 embedded at data[2] of a wrapper
WrappedSelection(d) ==
    LET sel == SelectionAction_parse(From(d, 2))
    IN  IF ~sel.ok THEN sel
        ELSE [sel EXCEPT !.rule = "wrapped_selection",
                         !.consumed = 2 + sel.consumed]

\* (0x0C, Some(0x00))
parse_0C(d) ==
    IF Len(d) >= 3 /\ Get(d, 2) = 22 THEN WrappedSelection(d)
    ELSE BasicCommand(U32(3072, 0), 2, "shortcut")

\* (0x2C, Some(0x00))
parse_2C(action_type, subcommand, d) ==
    IF /\ Len(d) >= 24
       /\ Get(d, 2) = 20 /\ Get(d, 3) = 0 /\ Get(d, 4) = 0 /\ Get(d, 5) = 3
       /\ Get(d, 6) = 0 /\ Get(d, 7) = 13 /\ Get(d, 8) = 0
    THEN LET mov_buffer == <<0, 13, 0, 0>> \o Slice(d, 9, 17) \o Slice(d, 17, 24)
                           \o <<0, 0, 0, 0, 0, 0, 0, 0, 0>>
             mov == MovementAction_parse_with_subcommand(mov_buffer, 13)
         IN  IF ~mov.ok THEN mov
             ELSE [mov EXCEPT !.rule = "movement_wrapper", !.consumed = 24]
    ELSE parse_unknown_action(action_type, subcommand, d)

\* a 14-byte arm that refuses short data
parse_strict14(kind, rule, d) ==
    IF Len(d) < 14 THEN UnexpectedEof(14, Len(d))
    ELSE OkResult(kind, rule, 14, <<U32Le(d, 2)>>)

\* (0x1B | 0x1C | 0x1D, _): consumed = 14.min(data.len()), the id read only
\* when six bytes are there
parse_clamped14(kind, rule, d) ==
    OkResult(kind, rule, Min(14, Len(d)),
             IF Len(d) >= 6 THEN <<U32Le(d, 2)>> ELSE <<U32(0, 0)>>)

\* a 0x19 arm that counts 13 bytes whatever is there
parse_19_unclamped(action_type, subcommand, d) ==
    IF Len(d) >= 10
    THEN OkResult("SelectSubgroup", "select_subgroup", 13,
                  <<At(d, 1), U32Le(d, 2), U32Le(d, 6)>>)
    ELSE parse_unknown_action(action_type, subcommand, d)

\* (0x19, _)
parse_19(action_type, subcommand, d) ==
    IF Len(d) >= 10
    THEN OkResult("SelectSubgroup", "select_subgroup", Min(13, Len(d)),
                  <<At(d, 1), U32Le(d, 2), U32Le(d, 6)>>)
    ELSE parse_unknown_action(action_type, subcommand, d)

\* (0x1E | 0x50, _): slot and a u32, 6 bytes
parse_fixed6(kind, rule, action_type, subcommand, d) ==
    IF Len(d) >= 6
    THEN OkResult(kind, rule, Min(6, Len(d)), <<At(d, 1), U32Le(d, 2)>>)
    ELSE parse_unknown_action(action_type, subcommand, d)

\* (0x51, _)
parse_51(action_type, subcommand, d) ==
    IF Len(d) >= 10
    THEN OkResult("TransferResources", "transfer", Min(10, Len(d)),
                  <<At(d, 1), U32Le(d, 2), U32Le(d, 6)>>)
    ELSE parse_unknown_action(action_type, subcommand, d)

\* (0x68, _)
parse_68(action_type, subcommand, d) ==
    IF Len(d) >= 13
    THEN OkResult("MinimapPing", "ping", Min(13, Len(d)),
                  <<U32Le(d, 1), U32Le(d, 5), U32Le(d, 9)>>)
    ELSE parse_unknown_action(action_type, subcommand, d)

\* (0x15, _)
parse_15(action_type, subcommand, d) ==
    IF Len(d) >= 24
    THEN [OkResult("BattleNetSync", "sync", Min(24, Len(d)), <<U16Le(d, 1)>>)
          EXCEPT !.raw = Slice(d, 4, 24)]
    ELSE parse_unknown_action(action_type, subcommand, d)

\* an ASCII letter, as the FourCC test of the 0x11 0x00 0x7B arm has it
IsLetter(b) == b \in 65..90 \/ b \in 97..122

\* (0x11, Some(0x00))
parse_11(action_type, subcommand, d) ==
    IF Get(d, 2) = 24
    THEN IF Len(d) >= 19 /\ Get(d, 5) = 26 /\ Get(d, 6) = 25
         THEN AbilityAction_from_raw(
                  Slice(d, 7, 11),
                  IF Len(d) >= 15 THEN <<U32Le(d, 11)>> ELSE <<>>,
                  "wrapped_11", 19)
         ELSE IF Len(d) >= 4 /\ Get(d, 3) = 0
         THEN BasicCommand(U32(4352, 6144), 4, "marker_11")
         ELSE BasicCommand(U32(4352, 6144), 3, "marker_11")
    ELSE IF Get(d, 2) = 123
    THEN LET consumed ==
                 IF Len(d) >= 18
                 THEN IF \E k \in 12..15 : IsLetter(At(d, k)) THEN 18
                      ELSE IF Len(d) >= 14 /\ Get(d, 11) = 0 THEN 14
                      ELSE 10
                 ELSE IF Len(d) >= 8 THEN 8
                 ELSE Min(4, Len(d))
         IN  [OkResult("BattleNetSync", "sync_11", consumed, <<4475>>)
              EXCEPT !.raw = Slice(d, 3, consumed)]
    ELSE parse_unknown_action(action_type, subcommand, d)

\* (0x03, Some(0x00))
parse_03_00(action_type, subcommand, d) ==
    IF Len(d) >= 5 /\ Get(d, 2) = 24 /\ Get(d, 4) = 3
    THEN BasicCommand(U32(OrBits(3, At(d, 3), 8) * 256, 6147), 5, "queue_03")
    ELSE parse_unknown_action(action_type, subcommand, d)

\* (0x03, Some(0x1A))
parse_03_1A(action_type, subcommand, d) ==
    IF Len(d) >= 12 /\ Get(d, 2) = 25
    THEN AbilityAction_from_raw(
             Slice(d, 3, 7),
             IF Len(d) >= 11 THEN <<U32Le(d, 7)>> ELSE <<>>,
             "wrapped_03", 12)
    ELSE parse_unknown_action(action_type, subcommand, d)

\* (0x26 | 0x36 | 0x46 | 0x56 | 0x2E | 0x3E | 0x4E | 0x5E, Some(0x00))
parse_wrapped_selection(action_type, subcommand, d) ==
    IF Len(d) >= 3 /\ Get(d, 2) = 22 THEN WrappedSelection(d)
    ELSE IF Len(d) >= 2 THEN BasicCommand(U32(0, action_type * 256), 2, "marker")
    ELSE parse_unknown_action(action_type, subcommand, d)

\* (0x20..=0x7F, Some(0x00)) and (0x80..=0xFF, Some(0x00))
parse_short_form(action_type, subcommand, d) ==
    IF Len(d) >= 4 /\ Get(d, 2) = 22 THEN WrappedSelection(d)
    ELSE IF Len(d) >= 2 THEN BasicCommand(U32(0, action_type * 256), 2, "marker")
    ELSE parse_unknown_action(action_type, subcommand, d)

\* (0x0E, Some(0x00)) if data.len() >= 3 && data.get(2) == Some(&0x1A)
parse_0E(action_type, subcommand, d) ==
    IF Len(d) >= 14 /\ Get(d, 3) = 25
    THEN AbilityAction_from_raw(
             Slice(d, 4, 8),
             IF Len(d) >= 12 THEN <<U32Le(d, 8)>> ELSE <<>>,
             "wrapped_0E", 14)
    ELSE parse_unknown_action(action_type, subcommand, d)

\* (0x14, Some(0x00))
parse_14(d) ==
    IF Len(d) >= 4 /\ Get(d, 2) = 22 THEN WrappedSelection(d)
    ELSE BasicCommand(U32(5120, 0), 2, "marker_14")

----------------------------------------------------------------------------
(* actions/parser.rs: ActionIterator                                       *)

\* ActionIterator::parse_action_type(action_type, subcommand, data): the
\* match arms in source order, the first matching arm deciding
parse_action_type(t, sub, d) ==
    IF t = 1 /\ sub = 0 /\ Len(d) >= 3 /\ Get(d, 2) = 103
        THEN BasicCommand(U32(256, 26368), 3, "marker_01")
    ELSE IF t = 1 /\ sub = 13
        THEN BasicCommand(U32(256, 3328), 2, "marker_01")
    ELSE IF t = 1 /\ sub = 0 /\ Len(d) >= 3
        THEN BasicCommand(U32(256, Get(d, 2)), 3, "marker_01")
    ELSE IF t = 12 /\ sub = 0 THEN parse_0C(d)
    ELSE IF t = 44 /\ sub = 0 THEN parse_2C(t, sub, d)
    ELSE IF t = 0 /\ sub \in {-1, 0} /\ Len(d) <= 2
        THEN BasicCommand(U32(0, 0), Min(Len(d), 2), "keepalive")
    ELSE IF t = 0 /\ sub \in {13, 14, 15, 16, 18}
        THEN MovementAction_parse_with_subcommand(d, sub)
    ELSE IF t = 15 /\ sub = 0 THEN InstantAbilityAction_parse(d)
    ELSE IF t = 22 THEN SelectionAction_parse(d)
    ELSE IF t = 23 THEN HotkeyAction_parse(d)
    ELSE IF t = 26 /\ sub = 0 THEN AbilityWithSelectionAction_parse(d)
    ELSE IF t = 26 /\ sub = 25 THEN AbilityAction_parse(d)
    ELSE IF t = 24 THEN OkResult("EscapeKey", "esc", 1, <<>>)
    ELSE IF t = 27 THEN parse_clamped14("ItemAction", "item", d)
    ELSE IF t = 28 THEN parse_clamped14("BasicCommand", "basic", d)
    ELSE IF t = 29 THEN parse_clamped14("BuildTrain", "build", d)
    ELSE IF t = 25 THEN parse_19(t, sub, d)
    ELSE IF t = 30
        THEN parse_fixed6("RemoveFromQueue", "remove_queue", t, sub, d)
    ELSE IF t = 80
        THEN parse_fixed6("ChangeAllyOptions", "ally", t, sub, d)
    ELSE IF t = 81 THEN parse_51(t, sub, d)
    ELSE IF t = 104 THEN parse_68(t, sub, d)
    ELSE IF t = 21 THEN parse_15(t, sub, d)
    ELSE IF t = 17 /\ sub = 0 THEN parse_11(t, sub, d)
    ELSE IF t = 3 /\ sub = 0 THEN parse_03_00(t, sub, d)
    ELSE IF t = 3 /\ sub = 26 THEN parse_03_1A(t, sub, d)
    ELSE IF t \in {38, 54, 70, 86, 46, 62, 78, 94} /\ sub = 0
        THEN parse_wrapped_selection(t, sub, d)
    ELSE IF t \in 32..127 /\ sub = 0 THEN parse_short_form(t, sub, d)
    ELSE IF t = 160 /\ sub = 2
        THEN BasicCommand(U32(40962, 0), 2, "marker_A0")
    ELSE IF t \in 128..255 /\ sub = 0 THEN parse_short_form(t, sub, d)
    ELSE IF t = 14 /\ sub = 0 /\ Len(d) >= 3 /\ Get(d, 2) = 26
        THEN parse_0E(t, sub, d)
    ELSE IF t = 20 /\ sub = 0 THEN parse_14(d)
    ELSE parse_unknown_action(t, sub, d)

\* a player-id check that forgets player 0
InvalidPlayerId_above_only(player_id) == player_id > 15

\* the player-id check of parse_next: player_id == 0 || player_id > 15
InvalidPlayerId(player_id) == player_id = 0 \/ player_id > 15

\* a parse_next that advances by the rule's count alone
parse_next_body_only(p, off) ==
    IF off >= Len(p)
    THEN [res |-> UnexpectedEof(1, 0), player_id |-> -1, offset |-> off]
    ELSE LET d == From(p, off)
             player_id == At(d, 0)
         IN  IF InvalidPlayerId(player_id)
             THEN [res |-> InvalidHeader, player_id |-> player_id,
                   offset |-> off]
             ELSE IF Len(d) < 2
             THEN [res |-> UnexpectedEof(2, Len(d)), player_id |-> player_id,
                   offset |-> off]
             ELSE LET r == parse_action_type(At(d, 1), Get(d, 2), From(d, 1))
                  IN  [res |-> r, player_id |-> player_id,
                       offset |-> IF r.ok THEN off + r.consumed ELSE off]

\* ActionIterator::parse_next on payload p at offset off: the result, with
\* the player id read and the new offset
parse_next(p, off) ==
    IF off >= Len(p)
    THEN [res |-> UnexpectedEof(1, 0), player_id |-> -1, offset |-> off]
    ELSE LET d == From(p, off)
             player_id == At(d, 0)
         IN  IF InvalidPlayerId(player_id)
             THEN [res |-> InvalidHeader, player_id |-> player_id,
                   offset |-> off]
             ELSE IF Len(d) < 2
             THEN [res |-> UnexpectedEof(2, Len(d)), player_id |-> player_id,
                   offset |-> off]
             ELSE LET r == parse_action_type(At(d, 1), Get(d, 2), From(d, 1))
                  IN  [res |-> r, player_id |-> player_id,
                       offset |-> IF r.ok THEN off + 1 + r.consumed ELSE off]

\* what next() returned: nothing yet, an action, an error, or None ("end")
ActItem(tag, start, player_id, ts, res) ==
    [tag |-> tag, start |-> start, player_id |-> player_id,
     timestamp_ms |-> ts, res |-> res]

NoActItem == ActItem("none", 0, -1, 0, NoResult)

\* an Err arm that leaves the iterator running
finished_never_set == FALSE

\* the Err arm of next(): self.finished = true
finished_after_error == TRUE

\* a next() whose Err arm also ends the iteration of the frames
ActionNext_ending_frames ==
    /\ a_live
    /\ IF a_finished \/ a_offset >= Len(a_data)
       THEN /\ a_item' = ActItem("end", a_offset, -1, a_ts, NoResult)
            /\ UNCHANGED <<a_offset, a_finished, a_hist, finished>>
       ELSE LET r == parse_next(a_data, a_offset)
            IN  IF r.res.ok
                THEN /\ a_item' = ActItem("ok", a_offset, r.player_id, a_ts,
                                          r.res)
                     /\ a_offset' = r.offset
                     /\ a_hist' = Append(a_hist, a_item')
                     /\ UNCHANGED <<a_finished, finished>>
                ELSE /\ a_item' = ActItem("err", a_offset, r.player_id, a_ts,
                                          r.res)
                     /\ a_finished' = TRUE
                     /\ finished' = TRUE
                     /\ a_hist' = Append(a_hist, a_item')
                     /\ UNCHANGED a_offset
    /\ UNCHANGED <<a_live, a_data, a_ts>>
    /\ UNCHANGED <<data, offset, accumulated_time, frame_count, item, frames>>
    /\ UNCHANGED fnVars

\* <ActionIterator as Iterator>::next
ActionNext ==
    /\ a_live
    /\ IF a_finished \/ a_offset >= Len(a_data)
       THEN /\ a_item' = ActItem("end", a_offset, -1, a_ts, NoResult)
            /\ UNCHANGED <<a_offset, a_finished, a_hist>>
       ELSE LET r == parse_next(a_data, a_offset)
            IN  IF r.res.ok
                THEN /\ a_item' = ActItem("ok", a_offset, r.player_id, a_ts,
                                          r.res)
                     /\ a_offset' = r.offset
                     /\ a_hist' = Append(a_hist, a_item')
                     /\ UNCHANGED a_finished
                ELSE /\ a_item' = ActItem("err", a_offset, r.player_id, a_ts,
                                          r.res)
                     /\ a_finished' = finished_after_error
                     /\ a_hist' = Append(a_hist, a_item')
                     /\ UNCHANGED a_offset
    /\ UNCHANGED <<a_live, a_data, a_ts>>
    /\ UNCHANGED tfVars
    /\ UNCHANGED fnVars

----------------------------------------------------------------------------
(* records/timeframe.rs: the records the iterator skips                    *)

TIMEFRAME_MARKER_1F == 31
TIMEFRAME_MARKER_1E == 30
CHECKSUM_MARKER == 34
CHAT_MARKER == 32
LEAVE_MARKER == 23

\* ChecksumRecord::SIZE
ChecksumRecord_SIZE == 6

\* LeaveRecord::SIZE
LeaveRecord_SIZE == 14

\* the index at which the message of a chat record ends: the first NUL at or
\* after index 9, else the end of the data (9 when the data is shorter)
chat_msg_end(d) ==
    LET nuls == {e \in 9..(Len(d) - 1) : At(d, e) = 0}
    IN  IF nuls # {} THEN MinOf(nuls)
        ELSE IF Len(d) > 9 THEN Len(d) ELSE 9

\* ChatMessage::parse(data); the message is kept as its bytes
ChatMessage_parse(d) ==
    IF Len(d) < 5
    THEN [ok |-> FALSE, err |-> "UnexpectedEof", flags |-> 0,
          message_id |-> 0, message |-> <<>>, byte_length |-> 0]
    ELSE IF At(d, 0) # CHAT_MARKER
    THEN [ok |-> FALSE, err |-> "InvalidHeader", flags |-> 0,
          message_id |-> 0, message |-> <<>>, byte_length |-> 0]
    ELSE LET msg_end == chat_msg_end(d)
         IN  [ok |-> TRUE, err |-> "none", flags |-> At(d, 1),
              message_id |-> U16Le(d, 2),
              message |-> IF msg_end > 9 THEN Slice(d, 9, msg_end) ELSE <<>>,
              byte_length |-> IF msg_end < Len(d) THEN msg_end + 1
                              ELSE msg_end]

----------------------------------------------------------------------------
(* records/timeframe.rs: TimeFrameIterator                                 *)

\* scan_limit of skip_non_timeframe_records
scan_limit == 10000

\* search_limit of find_next_timeframe
search_limit == 1000

\* a validation that looks at the delta only
is_valid_timeframe_at_delta_only(d, off) ==
    IF off + 5 > Len(d) THEN FALSE
    ELSE IF At(d, off) # TIMEFRAME_MARKER_1E /\ At(d, off) # TIMEFRAME_MARKER_1F
    THEN FALSE
    ELSE U16Le(d, off + 1) < 5000

\* a validation that lets a marker with fewer than 5 bytes left pass
is_valid_timeframe_at_any_length(d, off) ==
    /\ At(d, off) \in {TIMEFRAME_MARKER_1E, TIMEFRAME_MARKER_1F}
    /\ off + 5 <= Len(d) =>
          U16Le(d, off + 1) < 5000 /\ U16Le(d, off + 3) < 8000

\* TimeFrameIterator::is_valid_timeframe_at(offset)
is_valid_timeframe_at(d, off) ==
    IF off + 5 > Len(d) THEN FALSE
    ELSE IF At(d, off) # TIMEFRAME_MARKER_1E /\ At(d, off) # TIMEFRAME_MARKER_1F
    THEN FALSE
    ELSE U16Le(d, off + 1) < 5000 /\ U16Le(d, off + 3) < 8000

\* a search that runs to the end of the buffer
find_next_timeframe_unbounded(d, off) ==
    LET hits == {i \in (off + 1)..(Len(d) - 1) : is_valid_timeframe_at(d, i)}
    IN  IF hits # {} THEN MinOf(hits) ELSE -1

\* TimeFrameIterator::find_next_timeframe(): Some(i), or -1 for None
find_next_timeframe(d, off) ==
    LET end == Min(off + search_limit, Len(d))
        hits == {i \in (off + 1)..(end - 1) : is_valid_timeframe_at(d, i)}
    IN  IF hits # {} THEN MinOf(hits) ELSE -1

\* how far a checksum, a leave record and a chat record move the offset
ChecksumAdvance(d, off) == off + ChecksumRecord_SIZE

\* a leave record skipped only as far as the buffer goes
LeaveAdvance_clamped(d, off) == Min(Len(d), off + LeaveRecord_SIZE)

LeaveAdvance(d, off) == off + LeaveRecord_SIZE

ChatAdvance(d, off) ==
    LET msg == ChatMessage_parse(From(d, off))
    IN  IF msg.ok THEN off + msg.byte_length ELSE off + 1

\* a skip loop that never gives up on the bytes it has scanned
RECURSIVE skip_without_scan_limit(_, _, _, _)
skip_without_scan_limit(d, off, bytes_scanned, skips) ==
    IF off >= Len(d) THEN [go |-> FALSE, offset |-> off, skips |-> skips]
    ELSE LET b == At(d, off)
             step(to) ==
                 skip_without_scan_limit(d, to, bytes_scanned,
                                         Append(skips, <<off, to>>))
         IN  IF b = CHECKSUM_MARKER THEN step(ChecksumAdvance(d, off))
             ELSE IF b = CHAT_MARKER THEN step(ChatAdvance(d, off))
             ELSE IF b = LEAVE_MARKER THEN step(LeaveAdvance(d, off))
             ELSE IF b = TIMEFRAME_MARKER_1E \/ b = TIMEFRAME_MARKER_1F
             THEN IF is_valid_timeframe_at(d, off)
                  THEN [go |-> TRUE, offset |-> off, skips |-> skips]
                  ELSE step(off + 1)
             ELSE IF b = 0 THEN step(off + 1)
             ELSE LET next_tf == find_next_timeframe(d, off)
                  IN  IF next_tf # -1 THEN step(next_tf)
                      ELSE [go |-> FALSE, offset |-> off, skips |-> skips]

\* TimeFrameIterator::skip_non_timeframe_records(): the loop from offset off
\* with bytes_scanned scanned; go is its return value, skips the list of
\* <<offset before, offset after>> of every pass that moved the offset
RECURSIVE skip_non_timeframe_records(_, _, _, _)
skip_non_timeframe_records(d, off, bytes_scanned, skips) ==
    IF off >= Len(d) THEN [go |-> FALSE, offset |-> off, skips |-> skips]
    ELSE IF bytes_scanned > scan_limit
    THEN [go |-> FALSE, offset |-> off, skips |-> skips]
    ELSE LET b == At(d, off)
             step(to, scanned) ==
                 skip_non_timeframe_records(d, to, scanned,
                                            Append(skips, <<off, to>>))
         IN  IF b = CHECKSUM_MARKER
             THEN step(ChecksumAdvance(d, off),
                       bytes_scanned + ChecksumRecord_SIZE)
             ELSE IF b = CHAT_MARKER
             THEN step(ChatAdvance(d, off),
                       bytes_scanned + (ChatAdvance(d, off) - off))
             ELSE IF b = LEAVE_MARKER
             THEN step(LeaveAdvance(d, off), bytes_scanned + LeaveRecord_SIZE)
             ELSE IF b = TIMEFRAME_MARKER_1E \/ b = TIMEFRAME_MARKER_1F
             THEN IF is_valid_timeframe_at(d, off)
                  THEN [go |-> TRUE, offset |-> off, skips |-> skips]
                  ELSE step(off + 1, bytes_scanned + 1)
             ELSE IF b = 0
             THEN step(off + 1, bytes_scanned + 1)
             ELSE LET next_tf == find_next_timeframe(d, off)
                  IN  IF next_tf # -1
                      THEN step(next_tf, bytes_scanned + (next_tf - next_tf))
                      ELSE [go |-> FALSE, offset |-> off, skips |-> skips]

\* the record markers that end a frame's action data
BoundaryMarkers ==
    {TIMEFRAME_MARKER_1E, TIMEFRAME_MARKER_1F, CHECKSUM_MARKER, CHAT_MARKER,
     LEAVE_MARKER}

\* a boundary taken from the length hint at data[3..5]
find_action_boundary_by_hint(d, start) == Min(Len(d), start + U16Le(d, 3))

\* a boundary scan that begins behind the marker byte, inside the header
find_action_boundary_in_header(d, start) ==
    LET hits == {i \in 1..(Len(d) - 1) : At(d, i) \in BoundaryMarkers}
    IN  IF hits # {} THEN MinOf(hits) ELSE Len(d)

\* find_action_boundary(data, start)
find_action_boundary(d, start) ==
    LET hits == {i \in start..(Len(d) - 1) : At(d, i) \in BoundaryMarkers}
    IN  IF hits # {} THEN MinOf(hits) ELSE Len(d)

\* an assignment where the addition should be
saturating_add_assigns(acc, time_delta_ms) == U32(0, time_delta_ms)

\* u32::saturating_add(acc, u32::from(time_delta_ms)) on the two halves
saturating_add(acc, time_delta_ms) ==
    LET low == acc[1] + time_delta_ms
        high == acc[2] + (low \div 65536)
    IN  IF high > 65535 THEN U32(65535, 65535) ELSE U32(high, low % 65536)

\* TimeFrameIterator::parse_timeframe() at offset off with accumulated time
\* acc: the frame, or the error
parse_timeframe(buf, off, acc) ==
    LET d == From(buf, off)
    IN  IF Len(d) < 5
        THEN [ok |-> FALSE, err |-> "UnexpectedEof", time_delta_ms |-> 0,
              action_data |-> <<>>, accumulated_time_ms |-> acc,
              action_end |-> 0]
        ELSE IF At(d, 0) # TIMEFRAME_MARKER_1E /\ At(d, 0) # TIMEFRAME_MARKER_1F
        THEN [ok |-> FALSE, err |-> "InvalidHeader", time_delta_ms |-> 0,
              action_data |-> <<>>, accumulated_time_ms |-> acc,
              action_end |-> 0]
        ELSE LET time_delta_ms == U16Le(d, 1)
                 action_start == 5
                 action_end == find_action_boundary(d, action_start)
             IN  [ok |-> TRUE, err |-> "none",
                  time_delta_ms |-> time_delta_ms,
                  action_data |-> IF action_end > action_start
                                  THEN Slice(d, action_start, action_end)
                                  ELSE <<>>,
                  accumulated_time_ms |-> saturating_add(acc, time_delta_ms),
                  action_end |-> action_end]

\* an item whose frame carries its own delta as the accumulated time
FrameItem_with_delta_as_time(tag, start, fr, end, skips) ==
    [tag |-> tag, start |-> start, time_delta_ms |-> fr.time_delta_ms,
     action_data |-> fr.action_data,
     accumulated_time_ms |-> U32(0, fr.time_delta_ms), end |-> end,
     skips |-> skips]

\* what next() returned: nothing yet, a frame, an error, or None ("end");
\* start is the offset the frame was parsed at, end the offset after it
FrameItem(tag, start, fr, end, skips) ==
    [tag |-> tag, start |-> start, time_delta_ms |-> fr.time_delta_ms,
     action_data |-> fr.action_data,
     accumulated_time_ms |-> fr.accumulated_time_ms, end |-> end,
     skips |-> skips]

NoFrame ==
    [time_delta_ms |-> 0, action_data |-> <<>>,
     accumulated_time_ms |-> U32(0, 0)]

NoFrameItem == FrameItem("none", 0, NoFrame, 0, <<>>)

\* <TimeFrameIterator as Iterator>::next
TimeFrameNext ==
    /\ IF finished
       THEN /\ item' = FrameItem("end", offset, NoFrame, offset, <<>>)
            /\ UNCHANGED <<offset, accumulated_time, frame_count, finished,
                           frames>>
       ELSE LET s == skip_non_timeframe_records(data, offset, 0, <<>>)
            IN  IF ~s.go
                THEN /\ finished' = TRUE
                     /\ offset' = s.offset
                     /\ item' = FrameItem("end", s.offset, NoFrame, s.offset,
                                          s.skips)
                     /\ UNCHANGED <<accumulated_time, frame_count, frames>>
                ELSE LET fr == parse_timeframe(data, s.offset,
                                               accumulated_time)
                     IN  IF fr.ok
                         THEN /\ offset' = s.offset + fr.action_end
                              /\ accumulated_time' = fr.accumulated_time_ms
                              /\ frame_count' = frame_count + 1
                              /\ item' = FrameItem("frame", s.offset, fr,
                                             s.offset + fr.action_end, s.skips)
                              /\ frames' = Append(frames, item')
                              /\ UNCHANGED finished
                         ELSE /\ finished' = TRUE
                              /\ offset' = s.offset
                              /\ item' = FrameItem("err", s.offset, fr,
                                                   s.offset, s.skips)
                              /\ UNCHANGED <<accumulated_time, frame_count,
                                             frames>>
    /\ UNCHANGED data
    /\ UNCHANGED actVars
    /\ UNCHANGED fnVars

\* TimeFrame::actions() on the frame next() returned last
FrameActions ==
    /\ item.tag = "frame"
    /\ a_live' = TRUE
    /\ a_data' = item.action_data
    /\ a_offset' = 0
    /\ a_ts' = item.accumulated_time_ms
    /\ a_finished' = FALSE
    /\ a_item' = NoActItem
    /\ a_hist' = <<>>
    /\ UNCHANGED tfVars
    /\ UNCHANGED fnVars

----------------------------------------------------------------------------
(* The payloads the action iterator is run on: one action from Heads, then *)
(* up to MaxTail actions from Tails, cut at every length.                  *)

\* how many actions may follow the first one
MaxTail == 1

\* the largest unit count of a generated selection
MaxUnits == 2

\* eight target bytes: no target, a unit, and 0xFF only in the first four
TargetSlots ==
    {<<255, 255, 255, 255, 255, 255, 255, 255>>,
     <<59, 58, 0, 0, 59, 58, 0, 0>>,
     <<255, 255, 255, 255, 0, 0, 0, 0>>}

FourCC == <<119, 111, 116, 104>>

Zeros(n) == [k \in 1..n |-> 0]

\* count 8-byte unit blocks
RECURSIVE UnitBlocks(_)
UnitBlocks(count) ==
    IF count = 0 THEN <<>>
    ELSE UnitBlocks(count - 1) \o <<34 + count, 59, 0, 0, 38, 59, 0, 0>>

SelectionBody(count) == <<22, count, 5, 0>> \o UnitBlocks(count)

SelectionBodies == {SelectionBody(c) : c \in 0..MaxUnits}

\* action bodies, from the opcode on, that carry a target slot
TargetBodies(t) ==
    {<<0, 13, 0, 0>> \o t \o <<0, 0, 176, 197, 0, 0, 96, 69>> \o Zeros(8),
     <<15, 0, 0, 0, 0, 0>> \o FourCC \o t,
     <<26, 25>> \o FourCC \o t,
     <<26, 0>> \o SelectionBody(1) \o <<26, 25>> \o FourCC \o t,
     <<17, 0, 24, 1, 0, 26, 25>> \o FourCC \o t,
     <<3, 26, 25>> \o FourCC \o t,
     <<14, 0, 26, 25>> \o FourCC \o t,
     <<44, 0, 20, 0, 0, 3, 0, 13, 0>> \o t \o <<0, 0, 176, 197, 0, 0, 96>>}

\* the other action bodies
PlainBodies ==
    {<<0>>, <<0, 0>>, <<0, 14>> \o Zeros(26), <<0, 17, 9>>,
     <<1, 0, 103>>, <<1, 13>>, <<1, 0, 5>>,
     <<12, 0>>, <<20, 0>>, <<20, 0, 9, 9>>,
     <<23, 1, 0>>, <<24>>,
     <<25, 1, 35, 59, 0, 0, 38, 59, 0, 0, 7, 7, 7>>,
     <<27, 0, 73, 48, 48, 49>> \o Zeros(8),
     <<28, 0, 4, 0, 13, 0>> \o Zeros(8),
     <<29, 0, 104, 102, 111, 111>> \o Zeros(8),
     <<30, 1, 35, 59, 0, 0>>,
     <<80, 2, 31, 0, 0, 0>>,
     <<81, 2, 100, 0, 0, 0, 50, 0, 0, 0>>,
     <<104, 0, 0, 176, 197, 0, 0, 96, 69, 0, 0, 128, 63>>,
     <<21, 16, 16, 45>> \o [k \in 1..20 |-> 65],
     <<17, 0, 24, 0>>, <<17, 0, 24, 9>>, <<17, 0, 9, 9>>,
     <<17, 0, 123, 9, 9, 9, 9, 9, 9, 9, 9, 0, 65, 9, 9, 9, 9, 9>>,
     <<17, 0, 123, 9, 9, 9, 9, 9>>,
     <<3, 0, 24, 7, 3>>, <<3, 0, 9, 9>>, <<3, 26, 9, 9>>,
     <<14, 0, 26, 9, 9>>, <<14, 0, 9>>,
     <<38, 0>>, <<64, 0>>, <<160, 2>>, <<200, 0>>, <<200, 9>>,
     <<44, 0, 9, 9>>,
     <<26, 0, 5, 9>>, <<26, 7, 9>>,
     <<26, 0>> \o SelectionBody(0) \o <<26, 24>> \o FourCC \o Zeros(8),
     <<2, 9, 9>>, <<16, 1, 16, 9>>, <<18, 9, 1>>}
    \cup SelectionBodies
    \cup {<<w, 0>> \o b : w \in {12, 20, 38, 64, 200}, b \in SelectionBodies}
    \cup {<<0, sub>> \o Zeros(26) : sub \in {15, 16, 18}}

Bodies == PlainBodies \cup UNION {TargetBodies(t) : t \in TargetSlots}

\* a first action: a valid player id before any body, or a byte that is no
\* player id
Heads ==
    {<<3>> \o b : b \in Bodies}
    \cup {<<1, 24>>, <<15, 24>>, <<0, 24>>, <<16, 24>>, <<255, 24>>,
          <<0, 22, 1, 1, 0>>}

\* what may follow it
Tails ==
    {<<7, 23, 1, 0>>, <<4, 24>>, <<0, 24>>, <<16, 24>>, <<5, 19, 9>>,
     <<5, 16, 9>>, <<5, 17, 0, 9, 9>>, <<5, 18, 9>>, <<5, 20, 9>>,
     <<5, 26, 25>> \o FourCC \o <<255, 255, 255, 255, 255, 255, 255, 255>>}

RECURSIVE TailSeqs(_)
TailSeqs(n) ==
    IF n = 0 THEN {<<>>}
    ELSE TailSeqs(n - 1)
         \cup {s \o t : s \in TailSeqs(n - 1), t \in Tails}

Prefixes(x) == {SubSeq(x, 1, n) : n \in 0..Len(x)}

Payloads ==
    UNION {Prefixes(h \o s) : h \in Heads, s \in TailSeqs(MaxTail)}

----------------------------------------------------------------------------
(* The action iterator alone, on every payload                             *)

\* no time-frame iterator in use
IdleFrames ==
    /\ data = <<>>
    /\ offset = 0
    /\ accumulated_time = U32(0, 0)
    /\ frame_count = 0
    /\ finished = FALSE
    /\ item = NoFrameItem
    /\ frames = <<>>

\* ActionIterator::new(data, context)
InitActions ==
    /\ IdleFrames
    /\ a_live = TRUE
    /\ a_data \in Payloads
    /\ a_offset = 0
    /\ a_ts = U32(0, 2000)
    /\ a_finished = FALSE
    /\ a_item = NoActItem
    /\ a_hist = <<>>
    /\ IdleCalls

NextActions == ActionNext

SpecActions == InitActions /\ [][NextActions]_vars


----------------------------------------------------------------------------
(* The buffers the time-frame iterator is run on: up to MaxRecords records *)
(* from Records, with up to MaxCut bytes cut off the end, entered at a     *)
(* start offset of at most MaxStart.                                       *)

MaxRecords == 2

MaxCut == 1

MaxStart == 1

\* a time-frame record
FrameRecord(marker, delta, hint, payload) ==
    <<marker, delta % 256, delta \div 256, hint % 256, hint \div 256>>
    \o payload

Records ==
    {FrameRecord(31, 100, 0, <<>>),
     FrameRecord(30, 4999, 2, <<4, 24>>),
     FrameRecord(31, 0, 15, <<3, 26, 25>> \o FourCC
                            \o <<255, 255, 255, 255, 255, 255, 255, 255>>),
     FrameRecord(31, 100, 7999, <<7, 23, 1, 0>>),
     FrameRecord(31, 250, 1, <<0, 24, 5, 24>>),
     FrameRecord(30, 300, 9, <<3, 26, 25, 119>>),
     FrameRecord(31, 10, 4, <<1, 24, 2, 24>>),
     FrameRecord(31, 5000, 0, <<>>),
     FrameRecord(30, 100, 8000, <<>>),
     <<34, 4, 1, 2, 3, 4>>,
     <<23, 1, 0, 0, 0, 2, 13, 0, 0, 0, 0, 0, 0, 0>>,
     <<32, 7, 1, 0, 32, 5, 0, 0, 0, 104, 105, 0>>,
     <<32, 255, 1, 0, 31, 10, 0, 0, 0>>,
     <<0>>,
     <<56, 9, 9>>}

RECURSIVE RecordSeqs(_)
RecordSeqs(n) ==
    IF n = 0 THEN {<<>>}
    ELSE RecordSeqs(n - 1)
         \cup {s \o r : s \in RecordSeqs(n - 1), r \in Records}

Buffers ==
    {SubSeq(b, 1, IF Len(b) > c THEN Len(b) - c ELSE 0) :
        b \in RecordSeqs(MaxRecords), c \in 0..MaxCut}

\* no action iterator constructed yet
IdleActions ==
    /\ a_live = FALSE
    /\ a_data = <<>>
    /\ a_offset = 0
    /\ a_ts = U32(0, 0)
    /\ a_finished = FALSE
    /\ a_item = NoActItem
    /\ a_hist = <<>>

\* TimeFrameIterator::new(data, start_offset)
Init ==
    /\ data \in Buffers
    /\ offset \in 0..MaxStart
    /\ accumulated_time = U32(0, 0)
    /\ frame_count = 0
    /\ finished = FALSE
    /\ item = NoFrameItem
    /\ frames = <<>>
    /\ IdleActions
    /\ IdleCalls

Next == TimeFrameNext \/ FrameActions \/ ActionNext

Spec == Init /\ [][Next]_vars

----------------------------------------------------------------------------
(* Long buffers for the time-frame iterator: a run of unrecognized bytes   *)
(* about search_limit long, or a chat record about scan_limit long, before *)
(* the frames.                                                             *)

\* how far the long runs go below and above the two limits
MaxSlack == 1

\* n bytes none of which is a record marker
Junk(n) == <<56>> \o [k \in 1..(n - 1) |-> 9]

\* a chat record of n bytes: 9 header bytes, the message, the NUL
LongChat(n) ==
    <<32, 7, 1, 0, 32, 5, 0, 0, 0>> \o [k \in 1..(n - 10) |-> 104] \o <<0>>

JunkLens == (search_limit - 1 - MaxSlack)..(search_limit + MaxSlack)

ChatLens == (scan_limit - MaxSlack)..(scan_limit + MaxSlack)

\* what lies between the long chat record and the frames
LongMids == {<<>>, <<30>>, <<0>>, <<34, 4, 1, 2, 3, 4>>}

\* the frames behind the long run
LongTails ==
    {<<>>,
     FrameRecord(31, 100, 0, <<4, 24>>),
     FrameRecord(30, 4999, 7999, <<>>) \o FrameRecord(31, 1, 0, <<3, 24>>)}

LongBuffers ==
    {pre \o Junk(n) \o t :
        pre \in {<<>>, <<0>>}, n \in JunkLens, t \in LongTails}
    \cup {pre \o LongChat(n) \o mid \o t :
            pre \in {<<>>, <<0>>}, n \in ChatLens, mid \in LongMids,
            t \in LongTails}

\* TimeFrameIterator::new(data, start_offset) on a long buffer
InitLong ==
    /\ data \in LongBuffers
    /\ offset \in 0..MaxStart
    /\ accumulated_time = U32(0, 0)
    /\ frame_count = 0
    /\ finished = FALSE
    /\ item = NoFrameItem
    /\ frames = <<>>
    /\ IdleActions
    /\ IdleCalls

SpecLong == InitLong /\ [][Next]_vars

----------------------------------------------------------------------------
(* format.rs: detect_format                                                *)

\* b"GRBN"
GRBN_MAGIC == <<71, 82, 66, 78>>

\* b"Warcraft III recorded game\x1A\x00"
CLASSIC_MAGIC ==
    <<87, 97, 114, 99, 114, 97, 102, 116, 32, 73, 73, 73, 32,
      114, 101, 99, 111, 114, 100, 101, 100, 32, 103, 97, 109, 101, 26, 0>>

\* error.rs bytes_to_hex: the two hex digits of each of the first 8 bytes,
\* and the total length when more than 8 bytes were given (-1 otherwise)
bytes_to_hex(bytes) ==
    [hex |-> [k \in 1..Min(8, Len(bytes)) |->
                 <<bytes[k] \div 16, bytes[k] % 16>>],
     total |-> IF Len(bytes) <= 8 THEN -1 ELSE Len(bytes)]

\* ParserError::invalid_magic(expected, found)
invalid_magic(expected, found) ==
    [ok |-> FALSE, err |-> "InvalidMagic",
     expected |-> bytes_to_hex(expected), found |-> bytes_to_hex(found)]

\* Ok(ReplayFormat::..)
FormatOk(format) == [ok |-> TRUE, err |-> "none", format |-> format]

\* a detection that compares without asking for the length first
detect_format_unchecked(d) ==
    IF Len(d) >= 4 /\ Slice(d, 0, 4) = GRBN_MAGIC THEN FormatOk("Grbn")
    ELSE IF Len(d) >= 28 /\ Slice(d, 0, 28) = CLASSIC_MAGIC
    THEN FormatOk("Classic")
    ELSE invalid_magic(CLASSIC_MAGIC, Slice(d, 0, Min(28, Len(d))))

\* detect_format(data)
detect_format(d) ==
    IF Len(d) < 4 THEN UnexpectedEof(4, Len(d))
    ELSE IF Slice(d, 0, 4) = GRBN_MAGIC THEN FormatOk("Grbn")
    ELSE IF Len(d) < 28 THEN UnexpectedEof(28, Len(d))
    ELSE IF Slice(d, 0, 28) = CLASSIC_MAGIC THEN FormatOk("Classic")
    ELSE invalid_magic(CLASSIC_MAGIC,
                       IF Len(d) >= 28 THEN Slice(d, 0, 28) ELSE d)

\* the bytes that may follow a magic string
MaxExtra == 2

\* x with its k-th byte changed
Alter(x, k) == [x EXCEPT ![k] = (x[k] + 1) % 256]

\* both magic strings with bytes after them, and each with one byte changed
FormatFiles ==
    LET grbn == GRBN_MAGIC \o Zeros(24 + MaxExtra)
        classic == CLASSIC_MAGIC \o Zeros(MaxExtra)
    IN  {grbn, classic}
        \cup {Alter(grbn, k) : k \in 1..4}
        \cup {Alter(classic, k) : k \in 1..28}

\* every file above cut at every length
FormatInputs == UNION {Prefixes(x) : x \in FormatFiles}

\* nothing but a free function in use
IdleIterators == IdleFrames /\ IdleActions

InitFormat ==
    /\ IdleIterators
    /\ call \in {[fn |-> "detect_format", data |-> d] : d \in FormatInputs}
    /\ ret = NoRet

\* a call of detect_format(data)
DetectFormat ==
    /\ call.fn = "detect_format"
    /\ ~ret.done
    /\ ret' = [done |-> TRUE, res |-> detect_format(call.data)]
    /\ UNCHANGED <<call, tfVars, actVars>>

NextFormat == DetectFormat

SpecFormat == InitFormat /\ [][NextFormat]_vars

----------------------------------------------------------------------------
(* binary.rs: the byte readers                                             *)

\* Ok(value)
ReadOk(val) == [ok |-> TRUE, err |-> "none", val |-> val]

\* read_u16_le(bytes, offset)
read_u16_le(bytes, off) ==
    IF off + 2 > Len(bytes) THEN UnexpectedEof(off + 2, Len(bytes))
    ELSE ReadOk(U16Le(bytes, off))

\* read_u32_le(bytes, offset)
read_u32_le(bytes, off) ==
    IF off + 4 > Len(bytes) THEN UnexpectedEof(off + 4, Len(bytes))
    ELSE ReadOk(U32Le(bytes, off))

\* a read_bytes that reports the requested length and the bytes remaining
read_bytes_remaining(bytes, off, len) ==
    IF off + len > Len(bytes)
    THEN UnexpectedEof(len, IF off < Len(bytes) THEN Len(bytes) - off ELSE 0)
    ELSE ReadOk(Slice(bytes, off, off + len))

\* read_bytes(bytes, offset, len)
read_bytes(bytes, off, len) ==
    IF off + len > Len(bytes) THEN UnexpectedEof(off + len, Len(bytes))
    ELSE ReadOk(Slice(bytes, off, off + len))

\* slice.iter().position(|&b| b == 0).unwrap_or(default)
NulPosition(s, default) ==
    LET nuls == {i \in 0..(Len(s) - 1) : At(s, i) = 0}
    IN  IF nuls # {} THEN MinOf(nuls) ELSE default

\* whether String::from_utf8 accepts the bytes s from index i on
RECURSIVE Utf8From(_, _)
Utf8From(s, i) ==
    LET b == At(s, i)
        cont(j, lo, hi) == j < Len(s) /\ At(s, j) >= lo /\ At(s, j) <= hi
    IN  IF i >= Len(s) THEN TRUE
        ELSE IF b < 128 THEN Utf8From(s, i + 1)
        ELSE IF b >= 194 /\ b <= 223
        THEN cont(i + 1, 128, 191) /\ Utf8From(s, i + 2)
        ELSE IF b >= 224 /\ b <= 239
        THEN /\ cont(i + 1, IF b = 224 THEN 160 ELSE 128,
                            IF b = 237 THEN 159 ELSE 191)
             /\ cont(i + 2, 128, 191)
             /\ Utf8From(s, i + 3)
        ELSE IF b >= 240 /\ b <= 244
        THEN /\ cont(i + 1, IF b = 240 THEN 144 ELSE 128,
                            IF b = 244 THEN 143 ELSE 191)
             /\ cont(i + 2, 128, 191)
             /\ cont(i + 3, 128, 191)
             /\ Utf8From(s, i + 4)
        ELSE FALSE

\* String::from_utf8(bytes).map_err(InvalidHeader); the string is kept as
\* its UTF-8 bytes
from_utf8(s) == IF Utf8From(s, 0) THEN ReadOk(s) ELSE InvalidHeader

\* read_string(bytes, offset, max_len)
read_string(bytes, off, max_len) ==
    IF off >= Len(bytes) THEN UnexpectedEof(off + 1, Len(bytes))
    ELSE LET end == Min(off + max_len, Len(bytes))
             search_slice == Slice(bytes, off, end)
             string_len == NulPosition(search_slice, Len(search_slice))
         IN  from_utf8(Slice(search_slice, 0, string_len))

\* read_fixed_string(bytes, offset, len)
read_fixed_string(bytes, off, len) ==
    LET slice == read_bytes(bytes, off, len)
    IN  IF ~slice.ok THEN slice
        ELSE from_utf8(Slice(slice.val, 0, NulPosition(slice.val, len)))

\* the largest offset and the largest length asked for
MaxOff == 10
MaxLen == 4

\* the buffers read from: the prefixes of nine bytes that hold an integer, a
\* NUL-terminated string and a byte pair that is no UTF-8
ReaderBuffers == Prefixes(<<52, 18, 0, 255, 72, 105, 0, 195, 40>>)

ReaderCalls ==
    {[fn |-> f, bytes |-> b, offset |-> o, len |-> 0] :
        f \in {"read_u16_le", "read_u32_le"}, b \in ReaderBuffers,
        o \in 0..MaxOff}
    \cup {[fn |-> f, bytes |-> b, offset |-> o, len |-> n] :
            f \in {"read_bytes", "read_string", "read_fixed_string"},
            b \in ReaderBuffers, o \in 0..MaxOff, n \in 0..MaxLen}

InitBinary ==
    /\ IdleIterators
    /\ call \in ReaderCalls
    /\ ret = NoRet

\* what a reader call returns
Returns(res) ==
    /\ ~ret.done
    /\ ret' = [done |-> TRUE, res |-> res]
    /\ UNCHANGED <<call, tfVars, actVars>>

ReadU16Le ==
    call.fn = "read_u16_le" /\ Returns(read_u16_le(call.bytes, call.offset))

ReadU32Le ==
    call.fn = "read_u32_le" /\ Returns(read_u32_le(call.bytes, call.offset))

ReadBytes ==
    /\ call.fn = "read_bytes"
    /\ Returns(read_bytes(call.bytes, call.offset, call.len))

ReadString ==
    /\ call.fn = "read_string"
    /\ Returns(read_string(call.bytes, call.offset, call.len))

ReadFixedString ==
    /\ call.fn = "read_fixed_string"
    /\ Returns(read_fixed_string(call.bytes, call.offset, call.len))

NextBinary ==
    ReadU16Le \/ ReadU32Le \/ ReadBytes \/ ReadString \/ ReadFixedString

SpecBinary == InitBinary /\ [][NextBinary]_vars

----------------------------------------------------------------------------
(* records/game_header.rs: the settings/roster boundary                    *)

\* a terminator check that looks as far as the data goes
has_null_terminator_anywhere(d, pos, max_len) ==
    \E i \in pos..(Len(d) - 1) : At(d, i) = 0

\* has_null_terminator(data, pos, max_len)
has_null_terminator(d, pos, max_len) ==
    LET end == Min(pos + max_len, Len(d))
    IN  \E i \in pos..(end - 1) : At(d, i) = 0

\* is_valid_name_start(data, pos)
is_valid_name_start(d, pos) ==
    IF pos >= Len(d) THEN FALSE
    ELSE LET first_byte == At(d, pos)
             expected_continuation ==
                 IF first_byte <= 223 THEN 1
                 ELSE IF first_byte <= 239 THEN 2 ELSE 3
         IN  IF first_byte >= 32 /\ first_byte <= 126
             THEN has_null_terminator(d, pos, 256)
             ELSE IF first_byte >= 194 /\ first_byte <= 244
             THEN IF pos + expected_continuation >= Len(d) THEN FALSE
                  ELSE IF \E k \in 1..expected_continuation :
                              At(d, pos + k) < 128 \/ At(d, pos + k) > 191
                  THEN FALSE
                  ELSE has_null_terminator(d, pos, 256)
             ELSE FALSE

\* find_settings_boundary(data, start)
find_settings_boundary(d, start) ==
    LET last == IF Len(d) >= 2 THEN Len(d) - 2 ELSE 0
        hits == {i \in start..(last - 1) :
                    /\ At(d, i) \in {22, 25}
                    /\ At(d, i + 1) >= 1 /\ At(d, i + 1) <= 24
                    /\ is_valid_name_start(d, i + 2)}
    IN  IF hits # {} THEN MinOf(hits) ELSE Len(d)

\* first bytes of a name: printable ASCII and its neighbours, lead bytes
\* with and without their continuation bytes, and bytes that are no lead
NameStarts ==
    {<<65>>, <<32>>, <<126>>, <<31>>, <<127>>, <<128>>,
     <<195, 169>>, <<195, 40>>, <<195>>, <<194, 128>>, <<193, 128>>,
     <<223, 191>>, <<224, 160, 128>>, <<224, 160, 40>>, <<239, 191, 192>>,
     <<244, 128, 128, 128>>, <<244, 128, 128, 5>>, <<245, 128, 128, 128>>}

\* n bytes of a name after its start
NameFill(n) == [k \in 1..n |-> 66]

\* a two-byte header, a name start, fill bytes and perhaps the NUL
SlotCandidate(marker, slot, name, fill, nul) ==
    <<marker, slot>> \o name \o NameFill(fill)
    \o (IF nul THEN <<0>> ELSE <<>>)

\* the fills that put the NUL next to the name start and 255 and 256 bytes
\* after it
Fills(name) == {0, 1, 255 - Len(name), 256 - Len(name)}

\* the candidates with the name start name
CandidatesOf(name) ==
    {SlotCandidate(marker, slot, name, fill, nul) :
        marker \in {22, 25, 23},
        slot \in {0, 1, 24, 25},
        fill \in Fills(name),
        nul \in BOOLEAN}

SettingsBuffers ==
    {pre \o cand \o post :
        pre \in {<<>>, <<9>>},
        cand \in UNION {CandidatesOf(name) : name \in NameStarts},
        post \in {<<>>, <<22, 1, 65, 0>>}}

InitSettings ==
    /\ IdleIterators
    /\ call \in {[fn |-> "find_settings_boundary", data |-> d, start |-> s] :
                    d \in SettingsBuffers, s \in 0..MaxStart}
    /\ ret = NoRet

\* a call of find_settings_boundary(data, start)
FindSettingsBoundary ==
    /\ call.fn = "find_settings_boundary"
    /\ Returns(ReadOk(find_settings_boundary(call.data, call.start)))

NextSettings == FindSettingsBoundary

SpecSettings == InitSettings /\ [][NextSettings]_vars

----------------------------------------------------------------------------
(* records/player.rs: the player roster                                    *)

PLAYER_SLOT_MARKER == 22
SLOT_RECORD_MARKER == 25

\* find_trailing_data_end(data, start)
find_trailing_data_end(d, start) ==
    LET scan_end == Min(start + 20, Len(d))
        hits == {i \in start..(scan_end - 1) :
                    At(d, i) \in {22, 25, 30, 31, 32, 34, 23, 56}}
    IN  IF hits # {} THEN MinOf(hits)
        ELSE IF start + 7 <= Len(d) THEN start + 7 ELSE Len(d)

\* PlayerSlot::parse(data) for marker 0x16 and SlotRecord::parse(data) for
\* marker 0x19: the two bodies differ in the marker and the field names only
PlayerRecord_parse(d, marker) ==
    IF Len(d) = 0 THEN UnexpectedEof(1, 0)
    ELSE IF At(d, 0) # marker THEN InvalidHeader
    ELSE IF Len(d) < 3 THEN UnexpectedEof(3, Len(d))
    ELSE LET player_name == read_string(d, 2, 256)
         IN  IF ~player_name.ok THEN player_name
             ELSE LET name_end == 2 + Len(player_name.val) + 1
                  IN  ReadOk([marker |-> marker,
                              slot_id |-> At(d, 1),
                              player_name |-> player_name.val,
                              byte_length |->
                                  find_trailing_data_end(d, name_end)])

\* the while loop of PlayerRoster::parse, from the offset off on
RECURSIVE RosterLoop(_, _, _)
RosterLoop(d, off, players) ==
    IF off >= Len(d) THEN ReadOk([players |-> players, offset |-> off])
    ELSE IF At(d, off) \in {PLAYER_SLOT_MARKER, SLOT_RECORD_MARKER}
    THEN LET slot == PlayerRecord_parse(From(d, off), At(d, off))
         IN  IF ~slot.ok THEN slot
             ELSE RosterLoop(d, off + slot.val.byte_length,
                             Append(players, slot.val))
    ELSE IF At(d, off) = 0
    THEN RosterLoop(d, off + 1, players)
    ELSE ReadOk([players |-> players, offset |-> off])

\* the test both parts of find_extended_metadata_end make at position i
ReasonableTimeFrame(d, i) ==
    /\ At(d, i) \in {31, 30}
    /\ i + 5 <= Len(d)
    /\ U16Le(d, i + 1) < 5000
    /\ U16Le(d, i + 3) < 8000

\* a scan that stops on the first 0x1F or 0x1E byte, whatever follows it
find_extended_metadata_end_any_marker(d, start) ==
    LET hits == {i \in start..(Len(d) - 1) : At(d, i) \in {31, 30}}
    IN  IF hits # {} THEN MinOf(hits) ELSE start

\* find_extended_metadata_end(data, start)
find_extended_metadata_end(d, start) ==
    LET hits == {i \in start..(Len(d) - 1) : ReasonableTimeFrame(d, i)}
    IN  IF start < Len(d) /\ ReasonableTimeFrame(d, start) THEN start
        ELSE IF hits # {} THEN MinOf(hits)
        ELSE start

\* PlayerRoster::parse(data)
PlayerRoster_parse(d) ==
    LET loop == RosterLoop(d, 0, <<>>)
    IN  IF ~loop.ok THEN loop
        ELSE ReadOk([players |-> loop.val.players,
                     byte_length |->
                         find_extended_metadata_end(d, loop.val.offset)])

\* the largest number of records in a roster
MaxSlots == 2

\* a record: marker, slot, name, NUL and the trailing bytes
SlotBytes(marker, slot, name, trailing) ==
    <<marker, slot>> \o name \o <<0>> \o trailing

\* the first record of a roster
FirstSlots ==
    {SlotBytes(marker, slot, name, trailing) :
        marker \in {22, 25},
        slot \in {0, 1, 24, 25},
        name \in {<<65>>, <<195, 40>>},
        trailing \in {<<1, 0, 0, 0, 0, 0, 0>>, <<>>}}

\* a later record of a roster
LaterSlots ==
    {SlotBytes(marker, slot, <<66>>, <<2, 0, 0, 0, 0, 0, 0>>) :
        marker \in {22, 25}, slot \in {0, 1, 24, 255}}

\* n later records
RECURSIVE LaterRuns(_)
LaterRuns(n) ==
    IF n = 0 THEN {<<>>}
    ELSE LaterRuns(n - 1)
         \cup {r \o s : r \in LaterRuns(n - 1), s \in LaterSlots}

\* what follows the roster: nothing, a time frame, a 0x38 record before a
\* time frame, a truncated record
RosterEnds ==
    {<<>>, <<31, 10, 0, 0, 0>>, <<56, 1, 31, 255, 255, 31, 5, 0, 0, 0>>,
     <<22, 3>>, <<25, 30, 67>>}

RosterBuffers ==
    {<<>>}
    \cup {first \o later \o end :
            first \in FirstSlots, later \in LaterRuns(MaxSlots - 1),
            end \in RosterEnds}

InitRoster ==
    /\ IdleIterators
    /\ call \in {[fn |-> "PlayerRoster::parse", data |-> d] :
                    d \in RosterBuffers}
    /\ ret = NoRet

\* a call of PlayerRoster::parse(data)
ParseRoster ==
    /\ call.fn = "PlayerRoster::parse"
    /\ Returns(PlayerRoster_parse(call.data))

NextRoster == ParseRoster

SpecRoster == InitRoster /\ [][NextRoster]_vars

----------------------------------------------------------------------------
(* records/mod.rs, records/game_header.rs: the game record                 *)

GAME_RECORD_MAGIC_BYTES == <<16, 1, 0, 0>>
GAME_RECORD_MAGIC == U32(0, 272)

\* find_game_record_start(data)
find_game_record_start(d) ==
    LET last == IF Len(d) >= 4 THEN Len(d) - 4 ELSE 0
        hits == {i \in 0..(last - 1) :
                    /\ Slice(d, i, i + 4) = GAME_RECORD_MAGIC_BYTES
                    /\ i + 5 < Len(d)}
    IN  IF Len(d) < 4 THEN UnexpectedEof(4, Len(d))
        ELSE IF Slice(d, 0, 4) = GAME_RECORD_MAGIC_BYTES THEN ReadOk(0)
        ELSE IF hits # {} THEN ReadOk(MinOf(hits))
        ELSE InvalidHeader

\* GameRecordHeader::parse(data)
GameRecordHeader_parse(d) ==
    LET record_type == read_u32_le(d, 0)
        host_name == read_string(d, 6, 256)
        host_name_end == 6 + Len(host_name.val) + 1
        additional_data == read_string(d, host_name_end + 1, 256)
        additional_data_end ==
            host_name_end + 1 + Len(additional_data.val) + 1
    IN  IF ~record_type.ok THEN record_type
        ELSE IF record_type.val # GAME_RECORD_MAGIC THEN InvalidHeader
        ELSE IF Len(d) < 6 THEN UnexpectedEof(6, Len(d))
        ELSE IF ~host_name.ok THEN host_name
        ELSE IF Len(d) <= host_name_end
        THEN UnexpectedEof(host_name_end + 1, Len(d))
        ELSE IF ~additional_data.ok THEN additional_data
        ELSE ReadOk([host_slot |-> At(d, 5),
                     host_name |-> host_name.val,
                     host_flags |-> At(d, host_name_end),
                     byte_length |->
                         find_settings_boundary(d, additional_data_end)])

\* find_timeframe_start(data, start).unwrap_or(data.len())
find_timeframe_start(d, start) ==
    LET hits == {i \in start..(Len(d) - 1) :
                    At(d, i) \in {TIMEFRAME_MARKER_1F, TIMEFRAME_MARKER_1E}}
    IN  IF hits # {} THEN MinOf(hits) ELSE Len(d)

\* GameRecord::parse(data)
GameRecord_parse(d) ==
    LET start_offset == find_game_record_start(d)
        game_data == From(d, start_offset.val)
        header == GameRecordHeader_parse(game_data)
        header_end == header.val.byte_length
        players == PlayerRoster_parse(From(game_data, header_end))
        players_end == header_end + players.val.byte_length
    IN  IF ~start_offset.ok THEN start_offset
        ELSE IF ~header.ok THEN header
        ELSE IF ~players.ok THEN players
        ELSE ReadOk([header |-> header.val,
                     players |-> players.val.players,
                     timeframe_offset |->
                         start_offset.val
                         + find_timeframe_start(game_data, players_end)])

\* what may stand before the game record in a Reforged replay
GamePrefixes == {<<>>, <<8, 1, 18>>}

\* a header with host "H" and an empty additional string, and the settings
\* blob behind it
GameHeaders ==
    {<<16, 1, 0, 0, 0, 3, 72, 0, 1, 0>> \o settings :
        settings \in {<<>>, <<129, 22, 0, 3>>}}

\* the rosters: none, or a valid first record and later records
GameRosters ==
    {<<>>}
    \cup {SlotBytes(marker, 1, <<65>>, <<1, 0, 0, 0, 0, 0, 0>>) \o later :
            marker \in {22, 25}, later \in LaterRuns(MaxSlots - 1)}

\* what follows the roster: nothing; a valid frame behind either marker; a
\* 0x38 record holding a stray 0x1F before a valid frame; markers with
\* delta 5000, hint 8000 and too few bytes only; delta 4999 and hint 7999
PostRoster ==
    {<<>>, <<31, 10, 0, 0, 0>>, <<30, 10, 0, 0, 0>>,
     <<56, 1, 31, 255, 255, 31, 5, 0, 0, 0>>,
     <<56, 31, 255, 255, 0, 0>>, <<56, 1, 31, 0>>,
     <<31, 136, 19, 0, 0>>, <<31, 135, 19, 63, 31>>, <<31, 0, 0, 64, 31>>}

GameBuffers ==
    {pre \o header \o roster \o post :
        pre \in GamePrefixes, header \in GameHeaders,
        roster \in GameRosters, post \in PostRoster}
    \cup Prefixes(<<8, 16, 1, 0, 0, 0, 3, 72, 0, 1, 0, 22, 1, 195>>)

InitGame ==
    /\ IdleIterators
    /\ call \in {[fn |-> "GameRecord::parse", data |-> d] : d \in GameBuffers}
    /\ ret = NoRet

\* a call of GameRecord::parse(data)
ParseGameRecord ==
    /\ call.fn = "GameRecord::parse"
    /\ Returns(GameRecord_parse(call.data))

NextGame == ParseGameRecord

SpecGame == InitGame /\ [][NextGame]_vars

----------------------------------------------------------------------------
(* Properties                                                              *)

\* the items the action iterator has yielded
Yielded == {a_hist[k] : k \in 1..Len(a_hist)}

\* an element of a sequence by its index from the end
Last(q) == q[Len(q)]

\* C1: every action the action iterator yields as a success carries the byte
\* at its start as player_id and that byte is in 1..15, whichever rule
\* produced it; a byte outside 1..15 at an action start yields an
\* InvalidHeader error and no action.
C1_PlayerIdInRange ==
    \A it \in Yielded :
        /\ it.tag = "ok" =>
              /\ it.player_id \in 1..15
              /\ it.player_id = At(a_data, it.start)
        /\ At(a_data, it.start) \notin 1..15 =>
              /\ it.tag = "err"
              /\ it.res.err = "InvalidHeader"

\* a wrapped selection was yielded for player 3 and the byte 16 after it
\* was refused
C1_Witness ==
    /\ Len(a_hist) = 2
    /\ a_hist[1].tag = "ok"
    /\ a_hist[1].res.rule = "wrapped_selection"
    /\ a_hist[1].player_id = 3
    /\ a_hist[2].tag = "err"
    /\ a_hist[2].res.err = "InvalidHeader"
    /\ At(a_data, a_hist[2].start) = 16

\* the value of a u32 kept as halves, for values below 2^31
Value(u) == u[1] + 65536 * u[2]

\* the exact sum of the delta_ms of the first k yielded frames, as halves
\* <<low, high>> with an unbounded high half
RECURSIVE DeltaSum(_)
DeltaSum(k) ==
    IF k = 0 THEN <<0, 0>>
    ELSE LET prev == DeltaSum(k - 1)
             low == prev[1] + frames[k].time_delta_ms
         IN  <<low % 65536, prev[2] + (low \div 65536)>>

\* min(sum, u32::MAX)
Clamped(sum) == IF sum[2] > 65535 THEN <<65535, 65535>> ELSE sum

\* a <= b on two u32
LeqU32(a, b) == a[2] < b[2] \/ (a[2] = b[2] /\ a[1] <= b[1])

C3_ErrorOnceThenEnd ==
    /\ \A k \in 1..Len(a_hist) : a_hist[k].tag = "err" => k = Len(a_hist)
    /\ (a_hist # <<>> /\ Last(a_hist).tag = "err") =>
          /\ a_finished
          /\ a_item.tag = "end" \/ a_item = Last(a_hist)
    /\ (a_data = <<3, 26, 25, 119, 111>> /\ a_item.tag # "none") =>
          /\ Len(a_hist) = 1
          /\ a_hist[1].tag = "err"
          /\ a_hist[1].res.err = "UnexpectedEof"
          /\ a_hist[1].res.expected >= 14

\* the 5-byte payload yielded its one error and the next call returned None
C3_Witness ==
    /\ a_data = <<3, 26, 25, 119, 111>>
    /\ Len(a_hist) = 1
    /\ a_hist[1].tag = "err"
    /\ a_item.tag = "end"

\* the bytes an item of the action iterator started on
Opcode(it) == Get(a_data, it.start + 1)
Sub(it) == Get(a_data, it.start + 2)
Third(it) == Get(a_data, it.start + 3)
Remaining(it) == Len(a_data) - it.start
PlayerOk(it) == At(a_data, it.start) \in 1..15

MoveSubs == {13, 14, 15, 16, 18}

\* fixed-size rules whose parser refuses short data
StrictRule(op, sub) ==
    \/ op = 0 /\ sub \in MoveSubs
    \/ op = 15 /\ sub = 0
    \/ op = 23
    \/ op = 26 /\ sub = 25

\* fixed-size rules that clamp the consumed count to the data
ClampedRule(op) == op \in {25, 27, 28, 29}

\* fixed-size rules that fall back to Unknown on short data
FallbackRule(op) == op \in {30, 80, 81, 104, 21}

\* the size of a complete action of a fixed-size rule, player id included
FullSize(op, sub) ==
    IF op = 0 THEN 29
    ELSE IF op = 15 THEN 19
    ELSE IF op = 23 THEN 4
    ELSE IF op = 26 THEN 15
    ELSE IF op = 25 THEN 14
    ELSE IF op \in {27, 28, 29} THEN 15
    ELSE IF op \in {30, 80} THEN 7
    ELSE IF op = 81 THEN 11
    ELSE IF op = 104 THEN 14
    ELSE 25

\* the item started on a fixed-size action that ends one byte short
OneByteShort(it) ==
    /\ PlayerOk(it)
    /\ StrictRule(Opcode(it), Sub(it)) \/ ClampedRule(Opcode(it))
       \/ FallbackRule(Opcode(it))
    /\ Remaining(it) = FullSize(Opcode(it), Sub(it)) - 1

\* C5 as claimed: a payload ending one byte short of any fixed-size action
\* makes the iterator yield UnexpectedEof for that action.
C5_TruncationIsEof ==
    \A it \in Yielded :
        OneByteShort(it) => it.tag = "err" /\ it.res.err = "UnexpectedEof"

\* C5 as amended: one byte short, Movement, Instant ability, Control group
\* and Direct ability yield UnexpectedEof with the rule's size as expected;
\* Select sub-group, Item action, Basic command and Build/train yield a
\* success consuming the bytes that remain; Remove from queue, Change ally
\* options, Transfer resources, Minimap ping and Network sync yield Unknown.
C5_TruncationByRule ==
    \A it \in Yielded :
        OneByteShort(it) =>
            /\ StrictRule(Opcode(it), Sub(it)) =>
                  /\ it.tag = "err"
                  /\ it.res.err = "UnexpectedEof"
                  /\ it.res.expected = FullSize(Opcode(it), Sub(it)) - 1
                  /\ it.res.available = Remaining(it) - 1
            /\ ClampedRule(Opcode(it)) =>
                  /\ it.tag = "ok"
                  /\ it.res.kind \in {"SelectSubgroup", "ItemAction",
                                      "BasicCommand", "BuildTrain"}
                  /\ it.res.consumed = Remaining(it) - 1
            /\ FallbackRule(Opcode(it)) =>
                  /\ it.tag = "ok"
                  /\ it.res.kind = "Unknown"
                  /\ it.res.type_id = Opcode(it)

\* a movement action of 27 body bytes, one short of its 28, was refused
C5_Witness ==
    /\ Len(a_hist) = 1
    /\ OneByteShort(a_hist[1])
    /\ Opcode(a_hist[1]) = 0
    /\ Remaining(a_hist[1]) = 28
    /\ a_hist[1].tag = "err"
    /\ a_hist[1].res.err = "UnexpectedEof"

\* opcodes that can carry an embedded 0x16 selection at data[2]
SelectionWrappers == ({12, 20} \cup (32..255)) \ {44, 80, 81, 104}

\* the rules whose parsers can fail
CanFail(op, sub, third) ==
    \/ op = 0 /\ sub \in MoveSubs
    \/ op = 15 /\ sub = 0
    \/ op \in {22, 23}
    \/ op = 26 /\ sub \in {0, 25}
    \/ op \in SelectionWrappers /\ sub = 0 /\ third = 22

\* opcodes no arm of the dispatch names, whatever follows them
NoRuleOpcodes == {2, 4, 5, 6, 7, 8, 9, 10, 11, 13, 16, 18, 19, 31}

\* the item is an ability-with-selection whose selection marker or nested
\* ability markers are not the expected ones
NestedMarkerMismatch(it) ==
    /\ Opcode(it) = 26
    /\ Sub(it) = 0
    /\ \/ Third(it) # 22
       \/ LET ability_at == it.start + 7 + 8 * Get(a_data, it.start + 4)
          IN  Get(a_data, ability_at) # 26 \/ Get(a_data, ability_at + 1) # 25

\* C6 as claimed: the action iterator yields an error only for a byte that
\* is no player id or for a truncated payload.
C6_ErrorsOnlyPlayerOrEof ==
    \A it \in Yielded :
        it.tag = "err" => ~PlayerOk(it) \/ it.res.err = "UnexpectedEof"

\* C6 as amended: an error is yielded only for a byte that is no player id,
\* for a payload truncated before the opcode or inside a rule that checks
\* its length, or (InvalidHeader) for an ability-with-selection whose
\* selection or nested ability markers do not match; every other action
\* start yields a success, and an opcode no rule names yields Unknown.
C6_TolerantExceptNestedMarkers ==
    \A it \in Yielded :
        /\ it.tag = "err" =>
              \/ ~PlayerOk(it) /\ it.res.err = "InvalidHeader"
              \/ /\ it.res.err = "UnexpectedEof"
                 /\ Remaining(it) = 1 \/ CanFail(Opcode(it), Sub(it), Third(it))
                 /\ it.res.available < it.res.expected
              \/ it.res.err = "InvalidHeader" /\ NestedMarkerMismatch(it)
        /\ (/\ PlayerOk(it)
            /\ Remaining(it) >= 2
            /\ ~CanFail(Opcode(it), Sub(it), Third(it))) => it.tag = "ok"
        /\ (/\ PlayerOk(it)
            /\ Remaining(it) >= 2
            /\ Opcode(it) \in NoRuleOpcodes) =>
              /\ it.tag = "ok"
              /\ it.res.kind = "Unknown"
              /\ it.res.type_id = Opcode(it)

\* 03 1A 00 05 09: player 3, ability-with-selection, no selection marker
C6_Witness ==
    /\ a_data = <<3, 26, 0, 5, 9>>
    /\ Len(a_hist) = 1
    /\ a_hist[1].tag = "err"
    /\ a_hist[1].res.err = "InvalidHeader"

\* where the eight target bytes of a yielded ability lie in the payload
TargetAt(it) ==
    IF it.res.rule = "direct" THEN it.start + 7
    ELSE IF it.res.rule = "with_selection"
        THEN it.start + 13 + 8 * it.res.unit_count
    ELSE IF it.res.rule = "wrapped_11" THEN it.start + 12
    ELSE IF it.res.rule = "wrapped_03" THEN it.start + 8
    ELSE it.start + 9

\* C7: every yielded ability whose eight target bytes are all 0xFF has
\* target_unit None, whether decoded directly, nested in an
\* ability-with-selection, or through a wrapper form.
C7_AllFFTargetIsNone ==
    \A it \in Yielded :
        (/\ it.tag = "ok"
         /\ it.res.has_ability
         /\ TargetAt(it) + 8 <= Len(a_data)
         /\ AllFF(Slice(a_data, TargetAt(it), TargetAt(it) + 8)))
        => it.res.target_unit = <<>>

\* where the selection of a yielded item starts in the payload
SelectionAt(it) ==
    IF it.res.rule = "selection" THEN it.start + 1 ELSE it.start + 3

\* C8: every yielded selection (plain, wrapped or nested in an
\* ability-with-selection) has as many unit ids as the count byte declares,
\* the k-th being the first 4 little-endian bytes of the k-th 8-byte block.
C8_UnitIdsMatchCount ==
    \A it \in Yielded :
        (it.tag = "ok" /\ it.res.has_selection) =>
            /\ At(a_data, SelectionAt(it)) = 22
            /\ it.res.unit_count = At(a_data, SelectionAt(it) + 1)
            /\ Len(it.res.unit_ids) = it.res.unit_count
            /\ \A k \in 1..Len(it.res.unit_ids) :
                  it.res.unit_ids[k]
                      = U32Le(a_data, SelectionAt(it) + 4 + 8 * (k - 1))

\* a plain selection of two units was yielded with both of its ids
C8_Witness ==
    /\ a_item.tag = "ok"
    /\ a_item.res.rule = "selection"
    /\ a_item.res.unit_count = 2
    /\ a_item.res.unit_ids = <<U32(0, 15139), U32(0, 15140)>>

\* C9: the payload of a frame yielded from a marker at position i is the
\* bytes from i+5 up to the first later position holding 0x1E, 0x1F, 0x22,
\* 0x20 or 0x17, or up to the end of the buffer; the length hint plays no
\* part.
C9_PayloadEndsAtMarker ==
    \A k \in 1..Len(frames) :
        LET i == frames[k].start
            e == i + 5 + Len(frames[k].action_data)
        IN  /\ At(data, i) \in {30, 31}
            /\ e <= Len(data)
            /\ frames[k].action_data = Slice(data, i + 5, e)
            /\ \A j \in (i + 5)..(e - 1) : At(data, j) \notin {30, 31, 34, 32, 23}
            /\ e = Len(data) \/ At(data, e) \in {30, 31, 34, 32, 23}
            /\ frames[k].end = e

\* a frame with length hint 1 and the four payload bytes 00 18 05 18 was
\* yielded, its payload ended by the marker of the next record
C9_Witness ==
    /\ item.tag = "frame"
    /\ U16Le(data, item.start + 3) = 1
    /\ item.action_data = <<0, 24, 5, 24>>
    /\ item.end < Len(data)

\* C10: before a yield the iterator moves over a 0x22 checksum by 6 bytes,
\* over a 0x20 chat record by the length its parse returns (through the NUL
\* that ends the message), over a 0x17 leave record by 14 bytes and over a
\* 0x00 padding byte by 1 byte, each pass starting where the last ended.
C10_SkipAmounts ==
    \A k \in 1..Len(item.skips) :
        LET p == item.skips[k][1]
            q == item.skips[k][2]
            b == At(data, p)
            nuls == {e \in (p + 9)..(Len(data) - 1) : At(data, e) = 0}
        IN  /\ b = 34 => q = p + 6
            /\ b = 23 => q = p + 14
            /\ b = 0 => q = p + 1
            /\ (b = 32 /\ Len(data) - p >= 5) =>
                  /\ q = p + ChatMessage_parse(From(data, p)).byte_length
                  /\ nuls # {} => q = MinOf(nuls) + 1
                  /\ nuls = {} => q = IF Len(data) > p + 9 THEN Len(data)
                                     ELSE p + 9
            /\ k > 1 => p = item.skips[k - 1][2]
            /\ (k = Len(item.skips) /\ item.tag = "frame") => item.start = q

\* a 12-byte chat record at offset 0 was skipped and the frame after it
\* yielded
C10_Witness ==
    /\ item.tag = "frame"
    /\ item.skips = <<<<0, 12>>>>
    /\ At(data, 0) = 32

\* the five bytes at position i are a frame header that passes validation
ValidatedMarker(i) ==
    /\ i + 5 <= Len(data)
    /\ At(data, i) \in {30, 31}
    /\ U16Le(data, i + 1) < 5000
    /\ U16Le(data, i + 3) < 8000

\* C11: every yielded frame starts on a 0x1F or 0x1E whose delta is below
\* 5000 and whose length hint is below 8000; a 0x1F/0x1E at the current
\* offset that fails this is not yielded and is passed by one byte.
C11_OnlyValidatedMarkersYield ==
    /\ \A k \in 1..Len(frames) :
          /\ ValidatedMarker(frames[k].start)
          /\ frames[k].time_delta_ms = U16Le(data, frames[k].start + 1)
    /\ \A k \in 1..Len(item.skips) :
          LET p == item.skips[k][1]
              q == item.skips[k][2]
          IN  At(data, p) \in {30, 31} =>
                  /\ ~ValidatedMarker(p)
                  /\ q = p + 1
                  /\ \A j \in 1..Len(frames) : frames[j].start # p

\* a 0x1E with delta 100 and hint 8000 at offset 0 was passed by one byte
\* and the validated frame behind it yielded
C11_Witness ==
    /\ item.tag = "frame"
    /\ Len(item.skips) >= 1
    /\ item.skips[1] = <<0, 1>>
    /\ At(data, 0) = 30
    /\ U16Le(data, 1) = 100
    /\ U16Le(data, 3) = 8000
    /\ ValidatedMarker(item.start)

\* the bytes the skip loop has an arm for
RecognizedMarkers == {34, 32, 23, 30, 31, 0}

\* the validated frame markers among the 999 positions after position p
MarkersInWindow(p) == {i \in (p + 1)..(p + 999) : ValidatedMarker(i)}

\* C12: a call of next() that finds an unrecognized byte at the current
\* offset looks for a validated frame marker among the next 999 positions
\* (a window of 1000 bytes from the current offset): it yields the frame at
\* the first such marker, and ends the iteration when there is none.
C12_BoundedForwardSearch ==
    [][(/\ tfVars' # tfVars
        /\ ~finished
        /\ offset < Len(data)
        /\ At(data, offset) \notin RecognizedMarkers)
       => IF MarkersInWindow(offset) # {}
          THEN /\ item'.tag = "frame"
               /\ item'.start = MinOf(MarkersInWindow(offset))
               /\ item'.skips = <<<<offset, item'.start>>>>
               /\ ~finished'
          ELSE /\ item'.tag = "end"
               /\ finished'
               /\ frames' = frames
               /\ offset' = offset]_vars

\* a frame 1000 bytes after the unrecognized byte at offset 0 was not
\* found and the iteration ended without a frame
C12_Witness ==
    /\ item.tag = "end"
    /\ finished
    /\ frames = <<>>
    /\ offset = 0
    /\ At(data, 0) = 56
    /\ ValidatedMarker(1000)
    /\ \A i \in 1..999 : ~ValidatedMarker(i)

\* the validated frame marker reached from position p over checksum, chat,
\* leave and padding records and invalid 0x1F/0x1E bytes only; -1 when
\* something else, or the end of the buffer, comes first
RECURSIVE RecordWalk(_)
RecordWalk(p) ==
    IF p >= Len(data) THEN -1
    ELSE IF ValidatedMarker(p) THEN p
    ELSE LET b == At(data, p)
             nuls == {e \in (p + 9)..(Len(data) - 1) : At(data, e) = 0}
         IN  IF b = 34 THEN RecordWalk(p + 6)
             ELSE IF b = 23 THEN RecordWalk(p + 14)
             ELSE IF b \in {0, 30, 31} THEN RecordWalk(p + 1)
             ELSE IF b = 32 /\ nuls # {} THEN RecordWalk(MinOf(nuls) + 1)
             ELSE -1

\* C13 as claimed: a call of next() with a validated frame marker ahead,
\* separated from the offset only by checksum, chat, leave and padding
\* records and invalid 0x1F/0x1E bytes, yields that frame, however many
\* bytes lie between.
C13_FrameAheadIsYielded ==
    [][(/\ tfVars' # tfVars
        /\ ~finished
        /\ RecordWalk(offset) # -1)
       => /\ item'.tag = "frame"
          /\ item'.start = RecordWalk(offset)]_vars

\* C13 as amended: such a call yields that frame when at most 10000 bytes
\* lie between the offset and the marker; when more do, the call ends the
\* iteration and the frame is never yielded.
C13_FrameAheadWithinScanLimit ==
    [][(/\ tfVars' # tfVars
        /\ ~finished
        /\ RecordWalk(offset) # -1)
       => IF RecordWalk(offset) - offset <= 10000
          THEN /\ item'.tag = "frame"
               /\ item'.start = RecordWalk(offset)
               /\ ~finished'
          ELSE /\ item'.tag = "end"
               /\ finished'
               /\ frames' = frames]_vars

\* a chat record of 10001 bytes at offset 0 was skipped, and the call ended
\* the iteration on the validated frame marker behind it
C13_Witness ==
    /\ item.tag = "end"
    /\ finished
    /\ frames = <<>>
    /\ item.skips = <<<<0, 10001>>>>
    /\ At(data, 0) = 32
    /\ ValidatedMarker(10001)
    /\ offset = 10001


\* C14: the start offsets of successively yielded frames strictly increase
\* in the buffer, each frame starting at or after the end of the one
\* before; the start offsets of successively yielded actions strictly
\* increase in the payload, each action starting where the one before it
\* ended, so back-to-back actions come in the order of their bytes.
C14_StartsStrictlyIncrease ==
    /\ \A k \in 1..(Len(frames) - 1) :
          /\ frames[k].start < frames[k + 1].start
          /\ frames[k].end <= frames[k + 1].start
    /\ \A k \in 1..(Len(a_hist) - 1) :
          /\ a_hist[k].start < a_hist[k + 1].start
          /\ a_hist[k].tag = "ok"
          /\ a_hist[k + 1].start
                = a_hist[k].start + 1 + a_hist[k].res.consumed
    /\ Len(a_hist) >= 1 => a_hist[1].start = 0

\* two frames were yielded, and from the payload 01 18 02 18 of the second
\* the action of player 1 at 0 and then the action of player 2 at 2
C14_Witness ==
    /\ Len(frames) = 2
    /\ frames[1].start < frames[2].start
    /\ a_data = <<1, 24, 2, 24>>
    /\ Len(a_hist) = 2
    /\ a_hist[1].player_id = 1
    /\ a_hist[1].start = 0
    /\ a_hist[2].player_id = 2
    /\ a_hist[2].start = 2
    /\ a_hist[2].tag = "ok"

\* the first n bytes of the input of the call are the bytes m
StartsWith(m, n) == Len(call.data) >= n /\ Slice(call.data, 0, n) = m

\* C15 as claimed: format detection returns Reforged when the first 4 bytes
\* are GRBN, otherwise Classic when the first 28 bytes are the Classic
\* magic string, and fails with InvalidMagic in every other case.
C15_DetectOrInvalidMagic ==
    (call.fn = "detect_format" /\ ret.done) =>
        IF StartsWith(<<71, 82, 66, 78>>, 4)
        THEN ret.res.ok /\ ret.res.format = "Grbn"
        ELSE IF StartsWith(CLASSIC_MAGIC, 28)
        THEN ret.res.ok /\ ret.res.format = "Classic"
        ELSE ~ret.res.ok /\ ret.res.err = "InvalidMagic"

\* C15 as amended: Reforged when the first 4 bytes are GRBN; otherwise
\* UnexpectedEof{4, len} for an input shorter than 4 bytes and
\* UnexpectedEof{28, len} for one shorter than 28 bytes; otherwise Classic
\* when the first 28 bytes are the Classic magic string; otherwise
\* InvalidMagic.
C15_DetectByLengthThenMagic ==
    (call.fn = "detect_format" /\ ret.done) =>
        IF StartsWith(<<71, 82, 66, 78>>, 4)
        THEN ret.res.ok /\ ret.res.format = "Grbn"
        ELSE IF Len(call.data) < 28
        THEN /\ ~ret.res.ok
             /\ ret.res.err = "UnexpectedEof"
             /\ ret.res.expected = (IF Len(call.data) < 4 THEN 4 ELSE 28)
             /\ ret.res.available = Len(call.data)
        ELSE IF StartsWith(CLASSIC_MAGIC, 28)
        THEN ret.res.ok /\ ret.res.format = "Classic"
        ELSE /\ ~ret.res.ok
             /\ ret.res.err = "InvalidMagic"
             /\ ret.res.found = bytes_to_hex(Slice(call.data, 0, 28))

\* the first 24 bytes of the Classic magic string were refused as too short
C15_Witness ==
    /\ call.fn = "detect_format"
    /\ call.data = Slice(CLASSIC_MAGIC, 0, 24)
    /\ ret.done
    /\ ret.res.err = "UnexpectedEof"
    /\ ret.res.expected = 28
    /\ ret.res.available = 24

\* the readers that read a given number of bytes, and that number
SizedReaders == {"read_u16_le", "read_u32_le", "read_bytes", "read_fixed_string"}

Requested ==
    IF call.fn = "read_u16_le" THEN 2
    ELSE IF call.fn = "read_u32_le" THEN 4
    ELSE call.len

\* the read asked for does not fit in the buffer
DoesNotFit == call.offset + Requested > Len(call.bytes)

\* the bytes of the buffer from the offset on
BytesRemaining ==
    IF call.offset < Len(call.bytes) THEN Len(call.bytes) - call.offset ELSE 0

CompleteFixed(it) ==
    /\ PlayerOk(it)
    /\ Remaining(it) >= 3
    /\ StrictRule(Opcode(it), Sub(it)) \/ ClampedRule(Opcode(it))
       \/ FallbackRule(Opcode(it))
    /\ Remaining(it) >= FullSize(Opcode(it), Sub(it))

\* C17 as claimed: the count of the matching rule includes the player-id
\* byte, so a Movement action (opcode 0x00 with sub 0x0D, 0x0E, 0x0F, 0x10
\* or 0x12) advances the offset by exactly 28 bytes.
C17_MovementAdvances28 ==
    (/\ a_item.tag = "ok"
     /\ Opcode(a_item) = 0
     /\ Sub(a_item) \in MoveSubs)
    => /\ a_offset - a_item.start = a_item.res.consumed
       /\ a_offset - a_item.start = 28

\* C17 as amended: the action iterator advances by the count of the
\* matching rule plus one for the player-id byte, which the count does not
\* include: a Movement action advances the offset by 29 bytes, and every
\* complete action of a fixed-size rule by the rule's size plus one.
C17_AdvanceIsCountPlusPlayerId ==
    /\ a_item.tag = "ok" =>
          a_offset = a_item.start + 1 + a_item.res.consumed
    /\ (a_item.tag \in {"ok", "err"} /\ CompleteFixed(a_item)) =>
          /\ a_item.tag = "ok"
          /\ a_offset - a_item.start = FullSize(Opcode(a_item), Sub(a_item))
    /\ (/\ a_item.tag = "ok"
        /\ Opcode(a_item) = 0
        /\ Sub(a_item) \in MoveSubs)
       => /\ a_item.res.kind = "Movement"
          /\ a_item.res.consumed = 28
          /\ a_offset - a_item.start = 29

\* a Movement action at offset 0 was yielded and the offset stands at 29
C17_Witness ==
    /\ a_item.tag = "ok"
    /\ a_item.start = 0
    /\ Opcode(a_item) = 0
    /\ Sub(a_item) = 13
    /\ a_item.res.kind = "Movement"
    /\ a_offset = 29


\* the first position after the opcode of item it that holds a byte in
\* 1..15 followed by a recognized action type, or the end of the payload
UnknownEnd(it) ==
    LET stops == {j \in (it.start + 2)..(Len(a_data) - 2) :
                     /\ At(a_data, j) \in 1..15
                     /\ is_known_action_type(At(a_data, j + 1))}
    IN  IF stops # {} THEN MinOf(stops) ELSE Len(a_data)

\* C18: an Unknown action consumes the bytes from its opcode up to the
\* first later position that holds a byte in 1..15 followed by a recognized
\* action type, or up to the end of the payload; the bytes after the opcode
\* are its raw data, unchanged, and the next action starts at that position.
C18_UnknownRunsToNextAction ==
    \A k \in 1..Len(a_hist) :
        (a_hist[k].tag = "ok" /\ a_hist[k].res.kind = "Unknown") =>
            LET it == a_hist[k]
            IN  /\ it.res.type_id = At(a_data, it.start + 1)
                /\ it.res.subcommand = Get(a_data, it.start + 2)
                /\ it.res.consumed = UnknownEnd(it) - (it.start + 1)
                /\ it.res.raw = Slice(a_data, it.start + 2, UnknownEnd(it))
                /\ k < Len(a_hist) => a_hist[k + 1].start = UnknownEnd(it)

\* 03 02 09 09 07 17 01 00: the Unknown action of opcode 0x02 kept 09 09
\* and ended before the control-group action of player 7
C18_Witness ==
    /\ a_data = <<3, 2, 9, 9, 7, 23, 1, 0>>
    /\ Len(a_hist) = 2
    /\ a_hist[1].res.kind = "Unknown"
    /\ a_hist[1].res.type_id = 2
    /\ a_hist[1].res.raw = <<9, 9>>
    /\ a_hist[1].res.consumed = 3
    /\ a_hist[2].start = 4
    /\ a_hist[2].player_id = 7
    /\ a_hist[2].tag = "ok"


\* the Unknown action it stopped before a byte in 1..15 that is followed by
\* opcode t
StoppedBefore(it, t) ==
    /\ it.tag = "ok"
    /\ it.res.kind = "Unknown"
    /\ it.start + 1 + it.res.consumed + 1 < Len(a_data)
    /\ At(a_data, it.start + 1 + it.res.consumed) \in 1..15
    /\ At(a_data, it.start + 1 + it.res.consumed + 1) = t

SlotHeaderAndNul(i) ==
    /\ i + 2 < Len(call.data)
    /\ At(call.data, i) \in {22, 25}
    /\ At(call.data, i + 1) \in 1..24
    /\ \E j \in (i + 2)..(i + 2 + 255) :
          j < Len(call.data) /\ At(call.data, j) = 0

Printable(b) == b \in 32..126

Utf8Lead(b) == b \in 194..244

\* the continuation bytes the lead at position p asks for are all there
ContinuationsFollow(p) ==
    LET b == At(call.data, p)
        n == IF b \in 194..223 THEN 1 ELSE IF b \in 224..239 THEN 2 ELSE 3
    IN  \A k \in 1..n :
            p + k < Len(call.data) /\ At(call.data, p + k) \in 128..191

\* the positions from start on
ScanPositions == call.start..(Len(call.data) - 1)

\* the result is the first of the positions ok, and the length of the input
\* when there is none
FirstAccepted(ok) ==
    LET r == ret.res.val
    IN  IF ok # {}
        THEN r \in ok /\ \A i \in ok : r <= i
        ELSE r = Len(call.data)

\* what the claim asks of a candidate
AcceptedAsClaimed(i) ==
    /\ SlotHeaderAndNul(i)
    /\ Printable(At(call.data, i + 2)) \/ Utf8Lead(At(call.data, i + 2))

\* what the code asks of a candidate
AcceptedWithContinuations(i) ==
    /\ SlotHeaderAndNul(i)
    /\ \/ Printable(At(call.data, i + 2))
       \/ Utf8Lead(At(call.data, i + 2)) /\ ContinuationsFollow(i + 2)

\* C20 as claimed: the scan accepts the first position that holds 0x16 or
\* 0x19, a slot in 1..24, a printable ASCII byte or a UTF-8 multi-byte lead,
\* and a NUL within 256 bytes of the name start, and no other position.
C20_FirstSlotWithLeadOrAscii ==
    (call.fn = "find_settings_boundary" /\ ret.done) =>
        FirstAccepted({i \in ScanPositions : AcceptedAsClaimed(i)})

\* C20 as amended: as claimed, but a UTF-8 multi-byte lead counts only when
\* the one, two or three continuation bytes (0x80..0xBF) it asks for follow
\* it; with no accepted position the scan returns the length of the data.
C20_FirstSlotWithWholeLeadOrAscii ==
    (call.fn = "find_settings_boundary" /\ ret.done) =>
        FirstAccepted({i \in ScanPositions : AcceptedWithContinuations(i)})

\* 0x16, slot 1, the lead 0xC3 followed by 0x28 and a NUL was passed over
\* and the record 16 01 41 00 behind it accepted
C20_Witness ==
    /\ call.fn = "find_settings_boundary"
    /\ call.data = <<22, 1, 195, 40, 0, 22, 1, 65, 0>>
    /\ call.start = 0
    /\ ret.done
    /\ ret.res.val = 5

\* C21 as claimed: every record of a successfully parsed roster, first or
\* later, behind 0x16 or 0x19, has slot_id in 1..24.
C21_RosterSlotIdsInRange ==
    (call.fn = "PlayerRoster::parse" /\ ret.done /\ ret.res.ok) =>
        \A k \in 1..Len(ret.res.val.players) :
            ret.res.val.players[k].slot_id \in 1..24

\* the position in call.data at which the roster loop of a successful
\* game-record parse stopped
RosterEnd ==
    LET start_offset == find_game_record_start(call.data).val
        game_data == From(call.data, start_offset)
        header_end == GameRecordHeader_parse(game_data).val.byte_length
    IN  start_offset + header_end
        + RosterLoop(From(game_data, header_end), 0, <<>>).val.offset

\* position i of call.data holds 0x1F or 0x1E
MarkerByteAt(i) == At(call.data, i) \in {31, 30}

\* position i of call.data holds a marker followed by a delta below 5000 and
\* a length hint below 8000
ValidatedMarkerAt(i) ==
    /\ MarkerByteAt(i)
    /\ i + 5 <= Len(call.data)
    /\ U16Le(call.data, i + 1) < 5000
    /\ U16Le(call.data, i + 3) < 8000

\* the positions from the end of the roster on
AfterRoster == RosterEnd..(Len(call.data) - 1)

ParsedGame == call.fn = "GameRecord::parse" /\ ret.done /\ ret.res.ok

\* C22 as claimed: after a successful game-record parse the time-frame
\* offset is the position of the first validated marker at or after the
\* end of the roster.
C22_OffsetIsFirstValidatedMarker ==
    ParsedGame =>
        /\ ret.res.val.timeframe_offset \in AfterRoster
        /\ ValidatedMarkerAt(ret.res.val.timeframe_offset)
        /\ \A i \in AfterRoster :
              ValidatedMarkerAt(i) => ret.res.val.timeframe_offset <= i

\* C22 as amended: the offset is the first validated marker at or after the
\* end of the roster when there is one; otherwise it is the first 0x1F or
\* 0x1E byte there, validated or not, and the length of the data when there
\* is no such byte.
C22_OffsetIsFirstValidatedElseFirstMarker ==
    ParsedGame =>
        LET valid == {i \in AfterRoster : ValidatedMarkerAt(i)}
            bytes == {i \in AfterRoster : MarkerByteAt(i)}
        IN  ret.res.val.timeframe_offset =
                IF valid # {} THEN MinOf(valid)
                ELSE IF bytes # {} THEN MinOf(bytes)
                ELSE Len(call.data)

\* a parse that passed a stray 0x1F inside the post-roster region and
\* stopped on the valid frame behind it
C22_Witness ==
    /\ ParsedGame
    /\ \E i \in AfterRoster :
          /\ MarkerByteAt(i) /\ ~ValidatedMarkerAt(i)
          /\ i < ret.res.val.timeframe_offset
    /\ ValidatedMarkerAt(ret.res.val.timeframe_offset)
    /\ Len(ret.res.val.players) = 2

\* the frames a time-frame iterator yields on data from offset off on with
\* accumulated time acc, when nothing but next() is ever called
RECURSIVE FrameWalk(_, _, _)
FrameWalk(off, acc, fin) ==
    IF fin THEN <<>>
    ELSE LET s == skip_non_timeframe_records(data, off, 0, <<>>)
             fr == parse_timeframe(data, s.offset, acc)
         IN  IF ~s.go \/ ~fr.ok THEN <<>>
             ELSE <<FrameItem("frame", s.offset, fr, s.offset + fr.action_end,
                              s.skips)>>
                  \o FrameWalk(s.offset + fr.action_end,
                               fr.accumulated_time_ms, FALSE)

\* the items a fresh action iterator yields on payload p from offset off on
\* at time ts, the error that ends it included
RECURSIVE ActionWalk(_, _, _)
ActionWalk(p, off, ts) ==
    IF off >= Len(p) THEN <<>>
    ELSE LET r == parse_next(p, off)
         IN  IF r.res.ok
             THEN <<ActItem("ok", off, r.player_id, ts, r.res)>>
                  \o ActionWalk(p, r.offset, ts)
             ELSE <<ActItem("err", off, r.player_id, ts, r.res)>>

IsPrefix(s, t) == Len(s) <= Len(t) /\ s = SubSeq(t, 1, Len(s))

\* a step of the action iterator or the construction of one
ActionSide == actVars' # actVars

\* C23: an action-level error ends only its own frame's action stream: a
\* step on the action side, the yield of an error included, changes nothing
\* of the time-frame iterator; the frames yielded so far, followed by those
\* an iterator that is only ever advanced yields from the current offset on,
\* are the frames such an iterator yields from a start offset on; and the
\* actions yielded for a frame are the first items of the walk of a fresh
\* iterator over that frame's payload at that frame's time, whatever was
\* iterated before.
C23_ActionErrorsStayInTheirFrame ==
    [][/\ ActionSide => UNCHANGED tfVars
       /\ \E start \in 0..MaxStart :
             frames' \o FrameWalk(offset', accumulated_time', finished')
                 = FrameWalk(start, U32(0, 0), FALSE)
       /\ a_live' =>
             /\ \E k \in 1..Len(frames') :
                   /\ a_data' = frames'[k].action_data
                   /\ a_ts' = frames'[k].accumulated_time_ms
             /\ IsPrefix(a_hist', ActionWalk(a_data', 0, a_ts'))]_vars

\* the first frame's action stream ends in an error, and the second frame
\* has been yielded and its actions iterated to the end without one
C23_Witness ==
    /\ Len(frames) = 2
    /\ LET first == ActionWalk(frames[1].action_data, 0,
                               frames[1].accumulated_time_ms)
       IN  first # <<>> /\ first[Len(first)].tag = "err"
    /\ a_live
    /\ a_data = frames[2].action_data
    /\ a_item.tag = "end"
    /\ a_hist # <<>>
    /\ \A k \in 1..Len(a_hist) : a_hist[k].tag = "ok"

\* the structural validator of a chat record at position o of data: flags
\* at most 0x1F, 0x20 at +4, 0x00 at +6, +7 and +8
ChatStructure(o) ==
    /\ o + 8 < Len(data)
    /\ At(data, o + 1) <= 31
    /\ At(data, o + 4) = 32
    /\ At(data, o + 6) = 0 /\ At(data, o + 7) = 0 /\ At(data, o + 8) = 0

\* the skips of the last call of next() that started on a 0x20 byte and
\* went on by a chat record's length
ChatSkips ==
    {k \in 1..Len(item.skips) :
        /\ At(data, item.skips[k][1]) = CHAT_MARKER
        /\ ChatMessage_parse(From(data, item.skips[k][1])).ok
        /\ item.skips[k][2] = item.skips[k][1]
               + ChatMessage_parse(From(data, item.skips[k][1])).byte_length}

\* C24 as claimed: the time-frame iterator skips a 0x20 byte by a chat
\* record's length only when the structural validator holds there; a 0x20
\* byte failing it is not consumed as a chat record.
C24_ChatSkippedOnlyWhenValidated ==
    \A k \in ChatSkips : ChatStructure(item.skips[k][1])

\* C25: each successful yield of the action iterator moves its offset on by
\* at least 2 bytes and never past the end of the payload; the items
\* yielded, the error included, are never more than the payload has bytes;
\* and once next() has returned nothing, a further call returns nothing and
\* moves nothing.
C25_YieldsAdvanceWithinPayload ==
    [][/\ a_item'.tag = "ok" =>
             /\ a_offset' >= a_offset + 2
             /\ a_offset' <= Len(a_data)
       /\ Len(a_hist') <= Len(a_data)
       /\ a_item.tag = "end" =>
             /\ a_item'.tag = "end"
             /\ UNCHANGED <<a_offset, a_finished, a_hist>>]_vars

\* a payload iterated to its end in three or more successful yields
C25_Witness ==
    /\ a_item.tag = "end"
    /\ Len(a_hist) >= 3
    /\ \A k \in 1..Len(a_hist) : a_hist[k].tag = "ok"
    /\ a_offset = Len(a_data)

\* C26: next() always comes back: every pass of the skip loop of the last
\* call that did not return moved the offset strictly forward, a yielded
\* frame moves the offset on by at least 5 bytes, and the frames yielded
\* from a buffer of n bytes are at most n / 5.
C26_EveryPassAdvances ==
    /\ \A k \in 1..Len(item.skips) : item.skips[k][2] > item.skips[k][1]
    /\ \A k \in 1..Len(frames) : frames[k].end >= frames[k].start + 5
    /\ item.tag = "frame" => offset = item.end
    /\ 5 * Len(frames) <= Len(data)
    /\ frame_count = Len(frames)

\* a call that made two passes of the skip loop or more and then yielded a
\* frame
C26_Witness ==
    /\ item.tag = "frame"
    /\ Len(item.skips) >= 2
    /\ Len(frames) = 1

\* C27: the time-frame iterator never yields an error item: every frame was
\* parsed at a marker with 5 bytes or more left that passed validation,
\* every item is a frame or nothing, and an iteration that has ended has
\* ended by returning nothing.
C27_NoErrorItem ==
    /\ item.tag \in {"none", "frame", "end"}
    /\ \A k \in 1..Len(frames) :
          /\ frames[k].tag = "frame"
          /\ frames[k].start + 5 <= Len(data)
          /\ is_valid_timeframe_at(data, frames[k].start)
    /\ finished => item.tag = "end"

\* the iteration ended on a marker that has fewer than 5 bytes left
C27_Witness ==
    /\ item.tag = "end"
    /\ Len(frames) >= 1
    /\ \E p \in 0..(Len(data) - 1) :
          /\ p >= frames[Len(frames)].end
          /\ At(data, p) \in {30, 31}
          /\ p + 5 > Len(data)

\* the bytes of data from position s on are a complete control-group
\* action: a player id in 1..15, 0x17, a group and an operation
HotkeyBytesAt(s) ==
    /\ s + 4 <= Len(data)
    /\ At(data, s) \in 1..15
    /\ At(data, s + 1) = 23

\* the actions of the frame next() returned last have been iterated
IteratedLastFrame ==
    /\ item.tag = "frame"
    /\ a_live
    /\ a_data = item.action_data
    /\ a_ts = item.accumulated_time_ms
    /\ a_item.tag # "none"

\* C28 as claimed: when the action bytes of a time-frame record begin with a
\* complete control-group action, iterating that frame's actions yields the
\* Hotkey action; the 0x17 byte does not end the payload.
C28_HotkeyInFrameIsYielded ==
    (IteratedLastFrame /\ HotkeyBytesAt(item.start + 5)) =>
        /\ a_hist # <<>>
        /\ a_hist[1].tag = "ok"
        /\ a_hist[1].res.kind = "Hotkey"
        /\ a_hist[1].player_id = At(data, item.start + 5)

\* C29: once next() has returned nothing, a later call returns nothing and
\* leaves the offset, the accumulated time and the frame count as they are;
\* the frame count is the number of frames yielded so far and the
\* accumulated time is the accumulated_ms of the frame yielded last, 0
\* before the first.
C29_EndIsFinalAndCountersMatch ==
    [][/\ item.tag = "end" =>
             /\ item'.tag = "end"
             /\ UNCHANGED <<offset, accumulated_time, frame_count, finished,
                            frames>>
       /\ frame_count' = Len(frames')
       /\ accumulated_time' =
             IF frames' = <<>> THEN U32(0, 0)
             ELSE frames'[Len(frames')].accumulated_time_ms]_vars

\* next() was called again after it had returned nothing behind two frames,
\* the last skip having carried the offset past the end of the buffer
C29_Witness ==
    /\ item.tag = "end"
    /\ item.skips = <<>>
    /\ offset > Len(data)
    /\ frame_count = 2
    /\ accumulated_time # U32(0, 0)

\* C30: the iteration stays inside its data: every pass of the skip loop
\* read its marker inside the buffer; a frame's header and payload lie
\* inside the buffer and the payload is that slice of it; an offset that a
\* skip or the caller put beyond the end yields nothing; every action began
\* inside the payload, a successful one ended inside it, and a failed one
\* is an UnexpectedEof or an InvalidHeader error.
C30_IterationStaysInsideData ==
    /\ \A k \in 1..Len(item.skips) :
          item.skips[k][1] >= 0 /\ item.skips[k][1] < Len(data)
    /\ \A k \in 1..Len(frames) :
          /\ frames[k].start >= 0
          /\ frames[k].start + 5 <= frames[k].end
          /\ frames[k].end <= Len(data)
          /\ frames[k].action_data
                 = Slice(data, frames[k].start + 5, frames[k].end)
    /\ offset > Len(data) => item.tag \in {"none", "end"}
    /\ a_live =>
          /\ a_offset <= Len(a_data)
          /\ \A k \in 1..Len(a_hist) :
                /\ a_hist[k].start < Len(a_data)
                /\ a_hist[k].tag = "ok" =>
                      a_hist[k].start + 1 + a_hist[k].res.consumed
                          <= Len(a_data)
                /\ a_hist[k].tag = "err" =>
                      a_hist[k].res.err \in {"UnexpectedEof", "InvalidHeader"}

\* a leave record that runs past the end of the buffer was skipped behind a
\* frame whose action stream ended in an UnexpectedEof error
C30_Witness ==
    /\ item.tag = "end"
    /\ offset > Len(data)
    /\ Len(frames) >= 1
    /\ a_live
    /\ a_item.tag = "err"
    /\ a_item.res.err = "UnexpectedEof"

====
